---------------------------- MODULE Spec2Model ----------------------------
(***************************************************************************)
(* Savings-goals view (src/src/GoalsView.svelte): the component state, the *)
(* asynchronous initialize() pipeline over the host's query interface, and *)
(* the derivations rendered per goal (balance, history, progress, schedule,*)
(* pace projection, chart points).                                         *)
(*                                                                         *)
(* Conventions.  A nullable value is a sequence of length 0 (null) or 1.   *)
(* Money is an integer; every account and snapshot balance of the model is *)
(* a multiple of 100, so (balance * value) / 100 is an exact integer.      *)
(* Quotients of the schedule and pace arithmetic are kept exact as pairs   *)
(* [num, den] with den >= 0; den = 0 is the IEEE result of dividing by     *)
(* zero (num > 0: +Infinity, num < 0: -Infinity, num = 0: NaN).            *)
(* Calendar dates are day numbers; timestamps are ticks, TicksPerDay to a  *)
(* day.                                                                    *)
(***************************************************************************)
EXTENDS Integers, Sequences, FiniteSets, TLC

VARIABLES
    loading,        \* let loading = $state(true)
    error,          \* let error = $state<string | null>(null)
    goals,          \* let goals = $state<Goal[]>([])
    accounts,       \* let accounts = $state<Account[]>([])
    goalBalances,   \* Map<goal id, number>
    goalHistory,    \* Map<goal id, {date, balance}[]>
    dbGoals,        \* rows of plugin_goals.goals, in the order loadGoals reads them
    dbAccounts,     \* rows of accounts, in the order loadAccounts reads them
    dbSnapshots,    \* rows of sys_balance_snapshots, in snapshot_time order
    calls,          \* the initialize() calls in flight, oldest first
    now,            \* the clock (ticks)
    pc,             \* position of the synchronous derivation being exercised
    view,           \* what the last render of a goal computed (null before it)
    ui              \* the dialogs: showAddGoal, editingGoal, the new-goal form

vars == <<loading, error, goals, accounts, goalBalances, goalHistory,
          dbGoals, dbAccounts, dbSnapshots, calls, now, pc, view, ui>>

component == <<loading, error, goals, accounts, goalBalances, goalHistory>>
storage   == <<dbGoals, dbAccounts, dbSnapshots>>

---------------------------------------------------------------------------
(* Bounds of the model *)

MaxAllocs == 2          \* allocations per goal
MaxRows == 3            \* snapshot rows in storage
MaxDay == 3             \* calendar dates are 1..MaxDay
TicksPerDay == 2        \* clock resolution
MaxSeries == 20         \* longest history handed to the chart
MaxCalls == 2           \* initialize() calls in one behaviour
MaxSynced == 2          \* snapshot rows the host writes in one behaviour
MaxCreated == 2         \* goals created in one behaviour

(* Program constants *)

maxPoints == 18         \* const maxPoints = 18
Tolerance == 5          \* expectedProgress - 5

---------------------------------------------------------------------------
(* Nullable values *)

Null == <<>>
Some(v) == <<v>>
IsNull(o) == Len(o) = 0
Val(o) == o[1]

(* Integer helpers *)

Min(a, b) == IF a <= b THEN a ELSE b
Max(a, b) == IF a >= b THEN a ELSE b
Sign(a) == IF a > 0 THEN 1 ELSE IF a < 0 THEN -1 ELSE 0
Abs(a) == IF a < 0 THEN -a ELSE a

(* Exact quotients with IEEE division by zero *)

Q(n, d) == [num |-> n, den |-> d]
QInt(n) == Q(n, 1)
QIsNaN(x) == x.den = 0 /\ x.num = 0
\* JS  a / b  on integers
IntDiv(a, b) ==
    IF b > 0 THEN Q(a, b)
    ELSE IF b < 0 THEN Q(-a, -b)
    ELSE Q(Sign(a), 0)
\* JS  x / y
QDiv(x, y) ==
    IF QIsNaN(x) \/ QIsNaN(y) THEN Q(0, 0)
    ELSE IF x.den = 0 /\ y.den = 0 THEN Q(0, 0)
    ELSE IF x.den = 0 THEN Q(Sign(x.num) * (IF y.num < 0 THEN -1 ELSE 1), 0)
    ELSE IF y.den = 0 THEN Q(0, 1)
    ELSE IF y.num > 0 THEN Q(x.num * y.den, x.den * y.num)
    ELSE IF y.num < 0 THEN Q(-(x.num * y.den), -(x.den * y.num))
    ELSE Q(Sign(x.num), 0)
\* JS  x * y
QMul(x, y) ==
    IF QIsNaN(x) \/ QIsNaN(y) THEN Q(0, 0)
    ELSE IF x.den = 0 \/ y.den = 0 THEN Q(Sign(x.num) * Sign(y.num), 0)
    ELSE Q(x.num * y.num, x.den * y.den)
\* JS  x - y
QSub(x, y) ==
    IF QIsNaN(x) \/ QIsNaN(y) THEN Q(0, 0)
    ELSE IF x.den = 0 /\ y.den = 0
        THEN (IF x.num = y.num THEN Q(0, 0) ELSE x)
    ELSE IF x.den = 0 THEN x
    ELSE IF y.den = 0 THEN Q(-y.num, 0)
    ELSE Q(x.num * y.den - y.num * x.den, x.den * y.den)
\* JS  x >= y,  x > y,  x <= y,  x < y  (false when either side is NaN)
QGe(x, y) ==
    /\ ~QIsNaN(x) /\ ~QIsNaN(y)
    /\ IF x.den = 0 /\ y.den = 0 THEN x.num >= y.num
       ELSE IF x.den = 0 THEN x.num > 0
       ELSE IF y.den = 0 THEN y.num < 0
       ELSE x.num * y.den >= y.num * x.den
QGt(x, y) == ~QIsNaN(x) /\ ~QIsNaN(y) /\ ~QGe(y, x)
QLe(x, y) == QGe(y, x)
QLt(x, y) == QGt(y, x)
QEq(x, y) == QGe(x, y) /\ QGe(y, x)
\* Math.min(x, y), Math.max(x, y): NaN if either argument is NaN
QMin(x, y) == IF QIsNaN(x) \/ QIsNaN(y) THEN Q(0, 0) ELSE IF QLe(x, y) THEN x ELSE y
QMax(x, y) == IF QIsNaN(x) \/ QIsNaN(y) THEN Q(0, 0) ELSE IF QGe(x, y) THEN x ELSE y
\* Math.ceil of a finite quotient
QCeil(x) == -((-x.num) \div x.den)
\* truncation toward zero of a finite quotient (ToIntegerOrInfinity)
QTrunc(x) == IF x.num >= 0 THEN x.num \div x.den ELSE -((-x.num) \div x.den)


---------------------------------------------------------------------------
(* Records *)

Goal(id, target, date, allocs, start, created) ==
    [id |-> id, name |-> id, target_amount |-> target, target_date |-> date,
     allocations |-> allocs, starting_balance |-> start,
     completed |-> FALSE, completed_at |-> Null, created_at |-> created]

Alloc(a, t, v) == [account_id |-> a, allocation_type |-> t, allocation_value |-> v]

Account(a, b) == [account_id |-> a, balance |-> b]

Point(d, b) == [date |-> d, balance |-> b]

\* row of the history query: CAST(snapshot_time AS DATE), account_id, balance
Row(d, a, b) == [date |-> d, account_id |-> a, balance |-> b]

\* JS  m.get(k) || dflt  on a Map<string, number>
GetOr(m, k, dflt) == IF k \in DOMAIN m /\ m[k] # 0 THEN m[k] ELSE dflt

EmptyMap == [k \in {} |-> 0]

Put(m, k, v) == [x \in DOMAIN m \cup {k} |-> IF x = k THEN v ELSE m[x]]

\* lines 29-30 and 42-49 at construction: no dialog is open and the new-goal
\* form is empty (its date, icon, colour and image play no part here).
\* editingGoal is the copy the edit dialog works on; sameAs[k] is the index,
\* in the allocations of the listed goal, of the object that allocation k of
\* the copy is (0: an object of the copy alone); opened is the goals list as
\* it was when the dialog opened; toast is the last error or warning shown.
ClosedUi ==
    [showAddGoal |-> FALSE,
     editingGoal |-> Null,
     sameAs |-> <<>>,
     opened |-> Null,
     newGoalName |-> "",
     newGoalTargetAmount |-> 0,
     newGoalStartAmount |-> Null,
     newGoalAllocations |-> <<>>,
     toast |-> Null]

\* resetForm(), lines 343-352
resetForm(u) ==
    [u EXCEPT !.newGoalName = "",
              !.newGoalTargetAmount = 0,
              !.newGoalStartAmount = Null,
              !.newGoalAllocations = <<>>]

---------------------------------------------------------------------------
(* calculateBalances *)

\* accounts.find((a) => a.account_id === id): index of the first match, 0 if none
RECURSIVE FindAccount(_, _, _)
FindAccount(accts, id, i) ==
    IF i > Len(accts) THEN 0
    ELSE IF accts[i].account_id = id THEN i
    ELSE FindAccount(accts, id, i + 1)

\* the amount one allocation adds to total, given the account it found
AllocatedAmountNoCap(alloc, balance) ==
    IF alloc.allocation_type = "percentage"
    THEN (balance * alloc.allocation_value) \div 100
    ELSE alloc.allocation_value

AllocatedAmount(alloc, balance) ==
    IF alloc.allocation_type = "percentage"
    THEN (balance * alloc.allocation_value) \div 100
    ELSE Min(alloc.allocation_value, balance)

\* for (const alloc of goal.allocations) { ... total += ... }
RECURSIVE SumAllocations(_, _, _, _)
SumAllocations(allocs, accts, i, total) ==
    IF i > Len(allocs) THEN total
    ELSE LET k == FindAccount(accts, allocs[i].account_id, 1)
         IN  SumAllocations(allocs, accts, i + 1,
                IF k # 0 THEN total + AllocatedAmount(allocs[i], accts[k].balance)
                ELSE total)

HasAllocations(goal) ==
    ~IsNull(goal.allocations) /\ Len(Val(goal.allocations)) > 0

GoalBalanceIgnoringStart(goal, accts) ==
    IF HasAllocations(goal)
    THEN SumAllocations(Val(goal.allocations), accts, 1, 0)
    ELSE 0

GoalBalance(goal, accts) ==
    IF HasAllocations(goal)
    THEN SumAllocations(Val(goal.allocations), accts, 1, 0)
    ELSE goal.starting_balance

\* for (const goal of goals) balances.set(goal.id, ...)
RECURSIVE BalancesLoop(_, _, _, _)
BalancesLoop(gs, accts, i, balances) ==
    IF i > Len(gs) THEN balances
    ELSE BalancesLoop(gs, accts, i + 1,
            Put(balances, gs[i].id, GoalBalance(gs[i], accts)))

calculateBalances(gs, accts) == BalancesLoop(gs, accts, 1, EmptyMap)


---------------------------------------------------------------------------
(* loadGoalHistory *)

\* goal.allocations.map(a => a.account_id)
AccountIdsOf(allocs) == {allocs[i].account_id : i \in 1..Len(allocs)}

IsDateOrdered(rows) ==
    \A i, j \in 1..Len(rows) : i < j => rows[i].date <= rows[j].date

IndexPermutations(n) ==
    {p \in [1..n -> 1..n] : \A i, j \in 1..n : i # j => p[i] # p[j]}

\* the same query without its WHERE clause
HistoryQueryResultsUnfiltered(snapshots, ids) ==
    LET n == Len(snapshots)
    IN  {r \in {[i \in 1..n |-> snapshots[p[i]]] : p \in IndexPermutations(n)} :
            IsDateOrdered(r)}

\* SELECT ... FROM sys_balance_snapshots WHERE account_id IN (ids)
\* ORDER BY snapshot_date: the matching rows in any order the dates allow
\* (rows of one date come back in an order the query does not fix)
HistoryQueryResults(snapshots, ids) ==
    LET matching == SelectSeq(snapshots, LAMBDA r : r.account_id \in ids)
        n == Len(matching)
    IN  {r \in {[i \in 1..n |-> matching[p[i]]] : p \in IndexPermutations(n)} :
            IsDateOrdered(r)}

\* Number(row[2]) || 0
RowBalance(row) == row.balance

\* for (const row of result) { byDate.get(date).set(accountId, balance) }
RECURSIVE GroupByDate(_, _, _)
GroupByDate(result, i, byDate) ==
    IF i > Len(result) THEN byDate
    ELSE LET row == result[i]
             onDate == IF row.date \in DOMAIN byDate THEN byDate[row.date] ELSE EmptyMap
         IN  GroupByDate(result, i + 1,
                Put(byDate, row.date, Put(onDate, row.account_id, RowBalance(row))))

\* [...byDate.keys()].sort()
RECURSIVE SortedDates(_)
SortedDates(S) ==
    IF S = {} THEN <<>>
    ELSE LET m == CHOOSE x \in S : \A y \in S : x <= y
         IN  <<m>> \o SortedDates(S \ {m})

\* for (const [accountId, balance] of accountBalances) runningBalances.set(...)
UpdateRunningNoCarry(running, accountBalances) == accountBalances

UpdateRunning(running, accountBalances) ==
    [a \in DOMAIN running \cup DOMAIN accountBalances |->
        IF a \in DOMAIN accountBalances THEN accountBalances[a] ELSE running[a]]

\* the amount one allocation adds to goalBalance on a date
HistoryAmount(alloc, accountBalance) ==
    IF alloc.allocation_type = "percentage"
    THEN (accountBalance * alloc.allocation_value) \div 100
    ELSE Min(alloc.allocation_value, accountBalance)

\* for (const alloc of goal.allocations) goalBalance += ...
RECURSIVE HistoryBalance(_, _, _, _)
HistoryBalance(allocs, running, i, goalBalance) ==
    IF i > Len(allocs) THEN goalBalance
    ELSE HistoryBalance(allocs, running, i + 1,
            goalBalance + HistoryAmount(allocs[i], GetOr(running, allocs[i].account_id, 0)))

\* for (const date of sortedDates) { ...; history.push({date, balance}) }
RECURSIVE WalkDates(_, _, _, _, _, _)
WalkDates(allocs, byDate, dates, k, running, history) ==
    IF k > Len(dates) THEN history
    ELSE LET date == dates[k]
             running2 == UpdateRunning(running, byDate[date])
         IN  WalkDates(allocs, byDate, dates, k + 1, running2,
                Append(history, Point(date, HistoryBalance(allocs, running2, 1, 0))))

\* history.sort((a, b) => a.date.localeCompare(b.date)): stable, ascending
RECURSIVE InsertByDate(_, _)
InsertByDate(sorted, p) ==
    IF sorted = <<>> THEN <<p>>
    ELSE IF sorted[Len(sorted)].date <= p.date THEN Append(sorted, p)
    ELSE Append(InsertByDate(SubSeq(sorted, 1, Len(sorted) - 1), p), sorted[Len(sorted)])

RECURSIVE SortByDate(_, _, _)
SortByDate(history, i, sorted) ==
    IF i > Len(history) THEN sorted
    ELSE SortByDate(history, i + 1, InsertByDate(sorted, history[i]))

\* a point per row of the result, the rows of a date not merged
GoalHistoryPerRow(goal, result) ==
    [i \in 1..Len(result) |->
        Point(result[i].date,
              HistoryBalance(Val(goal.allocations),
                             Put(EmptyMap, result[i].account_id, RowBalance(result[i])), 1, 0))]

\* the history of one goal with allocations, from the rows its query returned
GoalHistoryFrom(goal, result) ==
    LET byDate == GroupByDate(result, 1, EmptyMap)
        sortedDates == SortedDates(DOMAIN byDate)
        history == WalkDates(Val(goal.allocations), byDate, sortedDates, 1, EmptyMap, <<>>)
    IN  SortByDate(history, 1, <<>>)

\* the history maps one whole run of loadGoalHistory can build: manual goals
\* are skipped, every other goal gets the history of what its query returned
RECURSIVE HistoryMaps(_, _, _, _)
HistoryMaps(gs, snapshots, i, historyMap) ==
    IF i > Len(gs) THEN {historyMap}
    ELSE IF ~HasAllocations(gs[i]) THEN HistoryMaps(gs, snapshots, i + 1, historyMap)
    ELSE UNION {HistoryMaps(gs, snapshots, i + 1,
                    Put(historyMap, gs[i].id, GoalHistoryFrom(gs[i], result))) :
                result \in HistoryQueryResults(snapshots, AccountIdsOf(Val(gs[i].allocations)))}

---------------------------------------------------------------------------
(* Helpers rendered per goal *)

\* Math.min(100, Math.max(0, x)) left out
getProgressUnclamped(goal) ==
    LET current == GetOr(goalBalances, goal.id, 0)
        saved == current - goal.starting_balance
        needed == goal.target_amount - goal.starting_balance
    IN  IF needed <= 0 THEN QInt(100)
        ELSE QMul(IntDiv(saved, needed), QInt(100))

getProgress(goal) ==
    LET current == GetOr(goalBalances, goal.id, 0)
        saved == current - goal.starting_balance
        needed == goal.target_amount - goal.starting_balance
    IN  IF needed <= 0 THEN QInt(100)
        ELSE QMin(QInt(100), QMax(QInt(0), QMul(IntDiv(saved, needed), QInt(100))))

getCurrentAmount(goal) == GetOr(goalBalances, goal.id, goal.starting_balance)

\* Math.max(0, x) left out
getRemainingAmountUnclamped(goal) == goal.target_amount - getCurrentAmount(goal)

getRemainingAmount(goal) == Max(0, goal.target_amount - getCurrentAmount(goal))

\* new Date(dateStr).getTime() of a calendar date, in ticks
DateTicks(d) == d * TicksPerDay

\* new Date().toISOString().split("T")[0], created_at.split("T")[0]
DayOf(t) == t \div TicksPerDay

getDaysRemaining(goal) ==
    IF IsNull(goal.target_date) THEN Null
    ELSE Some(QCeil(IntDiv(DateTicks(Val(goal.target_date)) - now, TicksPerDay)))

getMonthlyNeeded(goal) ==
    LET days == getDaysRemaining(goal)
    IN  IF IsNull(days) \/ Val(days) <= 0 THEN Null
        ELSE Some(QDiv(QInt(getRemainingAmount(goal)), IntDiv(Val(days), 30)))

\* the tolerance of 5 points left out
isOnTrackNoTolerance(goal) ==
    IF IsNull(goal.target_date) THEN Null
    ELSE LET days == getDaysRemaining(goal)
         IN  IF IsNull(days) THEN Null
             ELSE LET totalDays == IntDiv(DateTicks(Val(goal.target_date)) - goal.created_at,
                                          TicksPerDay)
                      elapsed == QSub(totalDays, QInt(Val(days)))
                      expectedProgress == QMul(QDiv(elapsed, totalDays), QInt(100))
                  IN  Some(QGe(getProgress(goal), expectedProgress))

isOnTrack(goal) ==
    IF IsNull(goal.target_date) THEN Null
    ELSE LET days == getDaysRemaining(goal)
         IN  IF IsNull(days) THEN Null
             ELSE LET totalDays == IntDiv(DateTicks(Val(goal.target_date)) - goal.created_at,
                                          TicksPerDay)
                      elapsed == QSub(totalDays, QInt(Val(days)))
                      expectedProgress == QMul(QDiv(elapsed, totalDays), QInt(100))
                      actualProgress == getProgress(goal)
                  IN  Some(QGe(actualProgress, QSub(expectedProgress, QInt(Tolerance))))

\* goalHistory.get(goal.id) || []
HistoryOf(goal) == IF goal.id \in DOMAIN goalHistory THEN goalHistory[goal.id] ELSE <<>>

\* projectedDate.setDate(projectedDate.getDate() + daysToGoal): the clock
\* moved by the whole days of daysToGoal; the caller formats its month and year
ProjectedDate(remaining, dailyRate) ==
    LET daysToGoal == QDiv(QInt(remaining), dailyRate)
    IN  now + QTrunc(daysToGoal) * TicksPerDay

\* the check of daysSinceCreation < 1 left out
PaceSinceCreationAnyAge(goal) ==
    LET current == getCurrentAmount(goal)
        daysSinceCreation == IntDiv(now - goal.created_at, TicksPerDay)
        progressMade == current - goal.starting_balance
    IN  IF progressMade <= 0 THEN Null
        ELSE Some(ProjectedDate(goal.target_amount - current,
                                QDiv(QInt(progressMade), daysSinceCreation)))

\* progressMade compared with === 0 instead of <= 0
PaceSinceCreationAnySign(goal) ==
    LET current == getCurrentAmount(goal)
        daysSinceCreation == IntDiv(now - goal.created_at, TicksPerDay)
        progressMade == current - goal.starting_balance
    IN  IF QLt(daysSinceCreation, QInt(1)) THEN Null
        ELSE IF progressMade = 0 THEN Null
        ELSE Some(ProjectedDate(goal.target_amount - current,
                                QDiv(QInt(progressMade), daysSinceCreation)))

\* lines 577-595: the rate since the goal was created
PaceSinceCreation(goal) ==
    LET current == getCurrentAmount(goal)
        daysSinceCreation == IntDiv(now - goal.created_at, TicksPerDay)
        progressMade == current - goal.starting_balance
    IN  IF QLt(daysSinceCreation, QInt(1)) THEN Null
        ELSE IF progressMade <= 0 THEN Null
        ELSE Some(ProjectedDate(goal.target_amount - current,
                                QDiv(QInt(progressMade), daysSinceCreation)))

\* lines 551-595: the rate of the history when it has one, else the fallback
PaceMethods(goal) ==
    LET history == HistoryOf(goal)
        current == getCurrentAmount(goal)
        first == history[1]
        last == history[Len(history)]
        daysBetween == IntDiv(DateTicks(last.date) - DateTicks(first.date), TicksPerDay)
        dailyRate == QDiv(QInt(last.balance - first.balance), daysBetween)
    IN  IF /\ Len(history) >= 2
           /\ QGe(daysBetween, QInt(1))
           /\ QGt(dailyRate, QInt(0))
        THEN Some(ProjectedDate(goal.target_amount - current, dailyRate))
        ELSE PaceSinceCreation(goal)

\* the check of line 549 left out
getPaceProjectionUnchecked(goal) == PaceMethods(goal)

getPaceProjection(goal) ==
    IF getCurrentAmount(goal) >= goal.target_amount THEN Null
    ELSE PaceMethods(goal)

---------------------------------------------------------------------------
(* getChartData *)

\* the creation point left out
ChartSeriesNoCreation(goal) ==
    LET history == HistoryOf(goal)
        today == DayOf(now)
    IN  IF Len(history) = 0 \/ history[Len(history)].date # today
        THEN Append(history, Point(today, getCurrentAmount(goal)))
        ELSE history

\* lines 464-479: history, today's point, the creation point
ChartSeries(goal) ==
    LET history == HistoryOf(goal)
        today == DayOf(now)
        withToday ==
            IF Len(history) = 0 \/ history[Len(history)].date # today
            THEN Append(history, Point(today, getCurrentAmount(goal)))
            ELSE history
    IN  IF Len(withToday) = 1
        THEN <<Point(DayOf(goal.created_at), goal.starting_balance)>> \o withToday
        ELSE withToday

\* Math.round of a finite quotient
QRound(x) == (2 * x.num + x.den) \div (2 * x.den)

\* Math.floor in the place of Math.round
SampleIndexFloor(n, i) ==
    LET step == IntDiv(n - 2, maxPoints - 2)
        x == QMul(QInt(i - 1), step)
    IN  (x.den + x.num) \div x.den

\* the index without its offset of 1
SampleIndexFromZero(n, i) ==
    LET step == IntDiv(n - 2, maxPoints - 2)
    IN  QRound(QMul(QInt(i - 1), step))

\* const idx = Math.round(1 + (i - 1) * step), an index from 0
SampleIndex(n, i) ==
    LET step == IntDiv(n - 2, maxPoints - 2)
        x == QMul(QInt(i - 1), step)
    IN  QRound(Q(x.den + x.num, x.den))

\* for (let i = 1; i < maxPoints - 1; i++) sampled.push(dataPoints[idx])
RECURSIVE SampleLoop(_, _, _)
SampleLoop(dataPoints, i, sampled) ==
    IF ~(i < maxPoints - 1) THEN sampled
    ELSE SampleLoop(dataPoints, i + 1,
            Append(sampled, dataPoints[SampleIndex(Len(dataPoints), i) + 1]))

\* the last point left out
DownsampleNoLast(dataPoints) ==
    IF Len(dataPoints) > maxPoints
    THEN SampleLoop(dataPoints, 1, <<dataPoints[1]>>)
    ELSE dataPoints

\* lines 485-502
Downsample(dataPoints) ==
    IF Len(dataPoints) > maxPoints
    THEN Append(SampleLoop(dataPoints, 1, <<dataPoints[1]>>), dataPoints[Len(dataPoints)])
    ELSE dataPoints

RECURSIVE MinBalance(_, _, _)
MinBalance(points, i, m) ==
    IF i > Len(points) THEN m ELSE MinBalance(points, i + 1, Min(m, points[i].balance))

RECURSIVE MaxBalance(_, _, _)
MaxBalance(points, i, m) ==
    IF i > Len(points) THEN m ELSE MaxBalance(points, i + 1, Max(m, points[i].balance))

\* the points (date and balance; the pixel coordinates and the SVG path are
\* a rescaling of them) and the balance scale of the chart
getChartData(goal) ==
    LET series == ChartSeries(goal)
    IN  IF Len(series) < 2
        THEN [points |-> <<>>, minY |-> 0, maxY |-> goal.target_amount]
        ELSE LET dataPoints == Downsample(series)
             IN  [points |-> dataPoints,
                  minY |-> MinBalance(dataPoints, 1, 0),
                  maxY |-> MaxBalance(dataPoints, 1, goal.target_amount)]

---------------------------------------------------------------------------
(* Rendering one goal: the values the card and the detail modal bind *)

Metrics(goal) ==
    [goal |-> goal.id,
     progress |-> getProgress(goal),
     current |-> getCurrentAmount(goal),
     remaining |-> getRemainingAmount(goal),
     daysLeft |-> getDaysRemaining(goal),
     monthlyNeeded |-> getMonthlyNeeded(goal),
     onTrack |-> isOnTrack(goal),
     paceProjection |-> getPaceProjection(goal),
     chartData |-> getChartData(goal)]

Render ==
    /\ pc = "ready"
    /\ \E i \in 1..Len(goals) : view' = Some(Metrics(goals[i]))
    /\ pc' = "done"
    /\ UNCHANGED <<component, storage, calls, now, ui>>

---------------------------------------------------------------------------
(* Input domains *)

AccountIds == {"a1", "a2"}
\* "gone" is referenced by allocations but never an account
AllocAccountIds == AccountIds \cup {"gone"}
BalanceValues == {-100, 0, 100, 300}
PercentValues == {50, 150}
FixedValues == {50, 200}

AllocRecords ==
    {Alloc(a, "percentage", v) : a \in AllocAccountIds, v \in PercentValues}
    \cup {Alloc(a, "fixed", v) : a \in AllocAccountIds, v \in FixedValues}

SeqsUpTo(S, n) == UNION {[1..k -> S] : k \in 0..n}

AllocLists == SeqsUpTo(AllocRecords, MaxAllocs)

\* allocations as loadGoals parses them: null, or the stored array
AllocationsValues == {Null} \cup {Some(l) : l \in AllocLists}

\* the account lists loadAccounts can produce (ORDER BY name, one row per account)
AccountLists ==
    {<<>>}
    \cup {<<Account("a1", b)>> : b \in BalanceValues}
    \cup {<<Account("a2", b)>> : b \in BalanceValues}
    \cup {<<Account("a1", b1), Account("a2", b2)>> : b1, b2 \in BalanceValues}

ManualGoal == Goal("manual", 1000, Null, Null, 500, 0)
LinkedGoal == Goal("linked", 1000, Null, Some(<<Alloc("a1", "percentage", 100)>>), 0, 0)

Idle ==
    /\ loading = TRUE
    /\ error = Null
    /\ goalBalances = EmptyMap
    /\ goalHistory = EmptyMap
    /\ calls = <<>>
    /\ view = Null
    /\ ui = ClosedUi

---------------------------------------------------------------------------
(* SpecBalance: calculateBalances over every goal list and account list of *)
(* the input domains                                                       *)

InitBalance ==
    /\ Idle
    /\ \E al \in AllocationsValues, start \in {0, 500}, other \in {ManualGoal, LinkedGoal} :
          goals = <<Goal("g1", 1000, Null, al, start, 0), other>>
    /\ accounts \in AccountLists
    /\ dbGoals = <<>> /\ dbAccounts = <<>> /\ dbSnapshots = <<>>
    /\ now = 0
    /\ pc = "ready"

CalculateBalances ==
    /\ pc = "ready"
    /\ goalBalances' = calculateBalances(goals, accounts)
    /\ pc' = "done"
    /\ UNCHANGED <<loading, error, goals, accounts, goalHistory, storage, calls, now, view, ui>>

NextBalance == CalculateBalances

SpecBalance == InitBalance /\ [][NextBalance]_vars

\* C1: a goal whose allocations are null or empty gets exactly its
\* starting_balance as its balance, whatever the accounts are.
C1_ManualBalanceIsStart ==
    pc = "done" =>
        \A i \in 1..Len(goals) :
            (IsNull(goals[i].allocations) \/ Val(goals[i].allocations) = <<>>) =>
                /\ goals[i].id \in DOMAIN goalBalances
                /\ goalBalances[goals[i].id] = goals[i].starting_balance

C1_Witness ==
    /\ pc = "done"
    /\ accounts # <<>>
    /\ \E i \in 1..Len(goals) :
          /\ goals[i].allocations = Some(<<>>)
          /\ goals[i].starting_balance = 500
          /\ goalBalances[goals[i].id] = 500
    /\ \E i \in 1..Len(goals) :
          /\ IsNull(goals[i].allocations)
          /\ goalBalances[goals[i].id] = 500

\* the loaded account an allocation refers to, if any
RefAccounts(alloc, accts) ==
    {k \in 1..Len(accts) : accts[k].account_id = alloc.account_id}

RefContribution(alloc, accts) ==
    IF RefAccounts(alloc, accts) = {} THEN 0
    ELSE LET bal == accts[CHOOSE k \in RefAccounts(alloc, accts) : TRUE].balance
         IN  IF alloc.allocation_type = "percentage"
             THEN (bal * alloc.allocation_value) \div 100
             ELSE IF alloc.allocation_value < bal THEN alloc.allocation_value ELSE bal

RECURSIVE RefTotal(_, _)
RefTotal(allocs, accts) ==
    IF allocs = <<>> THEN 0
    ELSE RefContribution(Head(allocs), accts) + RefTotal(Tail(allocs), accts)

\* C2: a goal with allocations gets the unclamped sum of its allocations'
\* contributions: balance * value / 100 for a percentage, min(value, balance)
\* for a fixed amount, 0 for an account that is not loaded.
C2_AllocatedBalanceIsSum ==
    pc = "done" =>
        \A i \in 1..Len(goals) :
            HasAllocations(goals[i]) =>
                /\ goals[i].id \in DOMAIN goalBalances
                /\ goalBalances[goals[i].id] = RefTotal(Val(goals[i].allocations), accounts)

\* a fixed amount capped by a negative account balance next to a dangling
\* reference: the total is negative
C2_Witness ==
    /\ pc = "done"
    /\ \E i \in 1..Len(goals) :
          /\ HasAllocations(goals[i])
          /\ \E j, k \in 1..Len(Val(goals[i].allocations)) :
                /\ Val(goals[i].allocations)[j].account_id = "gone"
                /\ Val(goals[i].allocations)[k].allocation_type = "fixed"
                /\ RefAccounts(Val(goals[i].allocations)[k], accounts) # {}
          /\ goalBalances[goals[i].id] < 0


---------------------------------------------------------------------------
(* SpecHistory: loadGoalHistory over every snapshot table of the input     *)
(* domains                                                                 *)

SnapshotBalances == {100, 300}

SnapshotRows == {Row(d, a, b) : d \in 1..MaxDay, a \in AccountIds, b \in SnapshotBalances}

\* snapshot_time order implies date order: the date is a cast of the time
SnapshotTables == {t \in SeqsUpTo(SnapshotRows, MaxRows) : IsDateOrdered(t)}

HistoryGoals ==
    {Goal("g1", 1000, Null, Some(a), 0, 0) :
        a \in {<<Alloc("a1", "percentage", 100)>>,
               <<Alloc("a1", "percentage", 50), Alloc("a2", "fixed", 200)>>,
               <<Alloc("a2", "fixed", 200), Alloc("gone", "percentage", 50)>>}}

InitHistory ==
    /\ Idle
    /\ \E g \in HistoryGoals : goals = <<ManualGoal, g>>
    /\ accounts = <<>>
    /\ dbGoals = <<>> /\ dbAccounts = <<>>
    /\ dbSnapshots \in SnapshotTables
    /\ now = 0
    /\ pc = "ready"

LoadGoalHistory ==
    /\ pc = "ready"
    /\ goalHistory' \in HistoryMaps(goals, dbSnapshots, 1, EmptyMap)
    /\ pc' = "done"
    /\ UNCHANGED <<loading, error, goals, accounts, goalBalances, storage, calls, now, view, ui>>

NextHistory == LoadGoalHistory

SpecHistory == InitHistory /\ [][NextHistory]_vars

\* the dates up to d on which account a has a snapshot
SnapshotDatesUpTo(a, d) ==
    {dbSnapshots[i].date : i \in {j \in 1..Len(dbSnapshots) :
        dbSnapshots[j].account_id = a /\ dbSnapshots[j].date <= d}}

\* the balances account a can stand at on date d: those of its snapshots on
\* its latest snapshot date up to d, and 0 when it has none
CarriedBalances(a, d) ==
    IF SnapshotDatesUpTo(a, d) = {} THEN {0}
    ELSE LET last == CHOOSE x \in SnapshotDatesUpTo(a, d) :
                        \A y \in SnapshotDatesUpTo(a, d) : y <= x
         IN  {dbSnapshots[i].balance : i \in {j \in 1..Len(dbSnapshots) :
                dbSnapshots[j].account_id = a /\ dbSnapshots[j].date = last}}

RECURSIVE RefHistoryTotal(_, _)
RefHistoryTotal(allocs, bal) ==
    IF allocs = <<>> THEN 0
    ELSE LET al == Head(allocs)
             b == bal[al.account_id]
         IN  (IF al.allocation_type = "percentage"
              THEN (b * al.allocation_value) \div 100
              ELSE IF al.allocation_value < b THEN al.allocation_value ELSE b)
             + RefHistoryTotal(Tail(allocs), bal)

\* the goal balances the carry-forward rule allows on date d
CarriedGoalBalances(allocs, d) ==
    {RefHistoryTotal(allocs, bal) :
        bal \in {f \in [AccountIdsOf(allocs) -> SnapshotBalances \cup {0}] :
                    \A a \in AccountIdsOf(allocs) : f[a] \in CarriedBalances(a, d)}}

\* C3: on every date of a goal's history, an account without a snapshot on
\* that date counts with the balance of its most recent earlier snapshot
\* date, and with 0 when it has no snapshot on or before the date.
C3_CarryForward ==
    pc = "done" =>
        \A i \in 1..Len(goals) :
            goals[i].id \in DOMAIN goalHistory =>
                \A k \in 1..Len(goalHistory[goals[i].id]) :
                    goalHistory[goals[i].id][k].balance \in
                        CarriedGoalBalances(Val(goals[i].allocations),
                                            goalHistory[goals[i].id][k].date)

\* a1 has its only snapshot on an earlier date than a2's: on the later date
\* the goal's balance still holds a1's share
C3_Witness ==
    /\ pc = "done"
    /\ \E i \in 1..Len(goals) :
          /\ goals[i].id \in DOMAIN goalHistory
          /\ Val(goals[i].allocations) =
                <<Alloc("a1", "percentage", 50), Alloc("a2", "fixed", 200)>>
          /\ dbSnapshots = <<Row(1, "a1", 300), Row(2, "a2", 100)>>
          /\ goalHistory[goals[i].id] = <<Point(1, 150), Point(2, 250)>>


---------------------------------------------------------------------------
(* SpecSchedule: progress and schedule of one goal, over every balance,    *)
(* deadline, creation time and clock of the input domains                  *)

TargetValues == {0, 500, 1000}
StartValues == {0, 500}
GoalBalanceValues == {-100, 0, 100, 300, 1000, 1200}
CreatedValues == 0..(TicksPerDay + 1)
NowValues == 0..((MaxDay + 1) * TicksPerDay)
TargetDates == {Null} \cup {Some(d) : d \in 1..MaxDay}

\* the balance map: no entry yet, or the goal's balance
BalanceMaps(id) == {EmptyMap} \cup {Put(EmptyMap, id, b) : b \in GoalBalanceValues}

InitSchedule ==
    /\ loading = FALSE /\ error = Null /\ calls = <<>> /\ view = Null /\ ui = ClosedUi
    /\ \E t \in TargetValues, s \in StartValues, d \in TargetDates, c \in CreatedValues :
          goals = <<Goal("g1", t, d, Some(<<Alloc("a1", "percentage", 100)>>), s, c)>>
    /\ accounts = <<>>
    /\ goalBalances \in BalanceMaps("g1")
    /\ goalHistory = EmptyMap
    /\ dbGoals = <<>> /\ dbAccounts = <<>> /\ dbSnapshots = <<>>
    /\ now \in NowValues
    \* the goal was created in the past
    /\ goals[1].created_at <= now
    /\ pc = "ready"

NextSchedule == Render

SpecSchedule == InitSchedule /\ [][NextSchedule]_vars

\* the goal a render was about
Rendered == CHOOSE g \in {goals[i] : i \in 1..Len(goals)} : g.id = Val(view).goal

\* the entry of the balance map the progress reads (0 when there is none)
StoredBalance(goal) == IF goal.id \in DOMAIN goalBalances THEN goalBalances[goal.id] ELSE 0

\* C6: progress is 100 when target_amount - starting_balance <= 0, and
\* otherwise (balance - starting_balance) / (target_amount -
\* starting_balance) * 100 cut to the range 0..100.
C6_ProgressClamped ==
    ~IsNull(view) =>
        LET g == Rendered
            p == Val(view).progress
            saved == StoredBalance(g) - g.starting_balance
            needed == g.target_amount - g.starting_balance
        IN  /\ p.den > 0
            /\ 0 <= p.num /\ p.num <= 100 * p.den
            /\ needed <= 0 => p.num = 100 * p.den
            /\ (needed > 0 /\ saved <= 0) => p.num = 0
            /\ (needed > 0 /\ saved >= needed) => p.num = 100 * p.den
            /\ (needed > 0 /\ 0 < saved /\ saved < needed) =>
                    p.num * needed = 100 * saved * p.den

\* a balance above the target renders 100, after one below the start could
\* have rendered 0
C6_Witness ==
    /\ ~IsNull(view)
    /\ Rendered.target_amount = 1000
    /\ Rendered.starting_balance = 500
    /\ StoredBalance(Rendered) = 1200
    /\ Val(view).progress.num = 100 * Val(view).progress.den

\* C7: isOnTrack is null exactly without a target_date; with one (and a
\* total duration other than 0) it is true iff progress >= expected - 5,
\* expected = (totalDuration - daysRemaining) / totalDuration * 100.
C7_OnTrackIffWithinTolerance ==
    ~IsNull(view) =>
        LET g == Rendered
            verdict == Val(view).onTrack
        IN  /\ IsNull(verdict) <=> IsNull(g.target_date)
            /\ ~IsNull(g.target_date) =>
                LET total == Val(g.target_date) * TicksPerDay - g.created_at
                    left == Val(Val(view).daysLeft) * TicksPerDay
                    elapsed == total - left
                    p == Val(view).progress
                IN  /\ total > 0 =>
                        (Val(verdict) <=> p.num * total >= (100 * elapsed - 5 * total) * p.den)
                    /\ total < 0 =>
                        (Val(verdict) <=> p.num * total <= (100 * elapsed - 5 * total) * p.den)

\* progress 30 against an expected 33.3: on track only by the tolerance
C7_Witness ==
    /\ ~IsNull(view)
    /\ ~IsNull(Rendered.target_date)
    /\ Val(view).onTrack = Some(TRUE)
    /\ LET total == Val(Rendered.target_date) * TicksPerDay - Rendered.created_at
           elapsed == total - Val(Val(view).daysLeft) * TicksPerDay
           p == Val(view).progress
       IN  total > 0 /\ p.num * total < 100 * elapsed * p.den


---------------------------------------------------------------------------
(* SpecPace: the pace projection of one goal, over every history, balance, *)
(* creation time and clock of the input domains                            *)

\* histories as loadGoalHistory leaves them: one point per date, ascending
Trajectories ==
    {h \in SeqsUpTo({Point(d, b) : d \in 1..MaxDay, b \in SnapshotBalances}, MaxDay) :
        \A i, j \in 1..Len(h) : i < j => h[i].date < h[j].date}

HistoryMapsOf(id) == {EmptyMap} \cup {Put(EmptyMap, id, h) : h \in Trajectories}

InitPace ==
    /\ loading = FALSE /\ error = Null /\ calls = <<>> /\ view = Null /\ ui = ClosedUi
    /\ \E s \in StartValues, c \in CreatedValues :
          goals = <<Goal("g1", 1000, Null, Some(<<Alloc("a1", "percentage", 100)>>), s, c)>>
    /\ accounts = <<>>
    /\ goalBalances \in BalanceMaps("g1")
    /\ goalHistory \in HistoryMapsOf("g1")
    /\ dbGoals = <<>> /\ dbAccounts = <<>> /\ dbSnapshots = <<>>
    /\ now \in NowValues
    \* the goal was created, and its snapshots taken, in the past
    /\ goals[1].created_at <= now
    /\ \A k \in 1..Len(HistoryOf(goals[1])) : HistoryOf(goals[1])[k].date <= DayOf(now)
    /\ pc = "ready"

NextPace == Render

SpecPace == InitPace /\ [][NextPace]_vars

\* the current amount as the card shows it
ShownAmount(goal) ==
    IF goal.id \in DOMAIN goalBalances /\ goalBalances[goal.id] # 0
    THEN goalBalances[goal.id]
    ELSE goal.starting_balance

\* the history has at least 2 points spanning at least a day and its daily
\* rate (last.balance - first.balance) / daysBetween is <= 0
HistoryRateNotPositive(goal) ==
    /\ goal.id \in DOMAIN goalHistory
    /\ LET h == goalHistory[goal.id]
       IN  /\ Len(h) >= 2
           /\ h[Len(h)].date - h[1].date >= 1
           /\ h[Len(h)].balance - h[1].balance <= 0

\* C5: no projection whenever the history (>= 2 points, >= 1 day) has a
\* daily rate <= 0, even when the rate since creation would be positive.
C5_NoProjectionOnFlatHistory ==
    ~IsNull(view) =>
        (HistoryRateNotPositive(Rendered) => IsNull(Val(view).paceProjection))

\* C10: no projection whenever the current amount is >= target_amount.
C10_NoProjectionWhenReached ==
    ~IsNull(view) =>
        (ShownAmount(Rendered) >= Rendered.target_amount =>
            IsNull(Val(view).paceProjection))

\* target reached with a rising history and a creation date a day back:
\* both methods would have had a rate
C10_Witness ==
    /\ ~IsNull(view)
    /\ ShownAmount(Rendered) >= Rendered.target_amount
    /\ Len(HistoryOf(Rendered)) >= 2
    /\ HistoryOf(Rendered)[Len(HistoryOf(Rendered))].balance > HistoryOf(Rendered)[1].balance
    /\ now - Rendered.created_at >= TicksPerDay
    /\ ShownAmount(Rendered) > Rendered.starting_balance
    /\ IsNull(Val(view).paceProjection)

---------------------------------------------------------------------------
(* SpecChart: the chart of one goal over histories of every length up to   *)
(* MaxSeries                                                               *)

\* a history of n daily points; k varies the balances
DailySeries(n, k) == [i \in 1..n |-> Point(i, 100 * ((i * k) % 4))]

InitChart ==
    /\ loading = FALSE /\ error = Null /\ calls = <<>> /\ view = Null /\ ui = ClosedUi
    /\ \E s \in StartValues :
          goals = <<Goal("g1", 1000, Null, Some(<<Alloc("a1", "percentage", 100)>>), s, 0)>>
    /\ accounts = <<>>
    /\ goalBalances \in {EmptyMap, Put(EmptyMap, "g1", 300)}
    /\ \E n \in 0..MaxSeries, k \in 1..2 :
          /\ goalHistory \in {EmptyMap, Put(EmptyMap, "g1", DailySeries(n, k))}
          /\ now \in {DateTicks(n), DateTicks(n) + 1, DateTicks(n + 1)}
    /\ dbGoals = <<>> /\ dbAccounts = <<>> /\ dbSnapshots = <<>>
    /\ pc = "ready"

NextChart == Render

SpecChart == InitChart /\ [][NextChart]_vars

\* C4: for a series of at least 2 points the chart keeps at most maxPoints
\* (18) points, the first and the last of them the first and the last of
\* the series.
C4_DownsampleKeepsEnds ==
    ~IsNull(view) =>
        LET series == ChartSeries(Rendered)
            points == Val(view).chartData.points
        IN  Len(series) >= 2 =>
                /\ Len(points) <= 18
                /\ Len(points) >= 2
                /\ points[1] = series[1]
                /\ points[Len(points)] = series[Len(series)]

\* a series longer than 18 points was cut down
C4_Witness ==
    /\ ~IsNull(view)
    /\ Len(ChartSeries(Rendered)) > 18
    /\ Len(Val(view).chartData.points) = 18


---------------------------------------------------------------------------
(* Spec: the component from mount on.  initialize() runs as the data       *)
(* refresh callback, the Retry button and the mount effect start it; each  *)
(* sdk.query it awaits resolves or rejects in a step of its own, and the   *)
(* host changes the accounts and snapshots in between.                     *)

\* ORDER BY completed ASC, created_at DESC: g comes strictly before h
GoalPrecedes(g, h) ==
    \/ ~g.completed /\ h.completed
    \/ g.completed = h.completed /\ g.created_at > h.created_at

\* rows that tie keep the order of the table
InsertGoal(sorted, g) ==
    LET ahead == {i \in 1..Len(sorted) : ~GoalPrecedes(g, sorted[i])}
        n == Cardinality(ahead)
    IN  SubSeq(sorted, 1, n) \o <<g>> \o SubSeq(sorted, n + 1, Len(sorted))

RECURSIVE OrderGoals(_, _, _)
OrderGoals(rows, i, sorted) ==
    IF i > Len(rows) THEN sorted
    ELSE OrderGoals(rows, i + 1, InsertGoal(sorted, rows[i]))

\* loadGoals: SELECT ... FROM plugin_goals.goals ORDER BY completed ASC, created_at DESC
GoalsQuery == OrderGoals(dbGoals, 1, <<>>)

\* the balance of the account's snapshot with the greatest snapshot_time
LatestSnapshot(a) ==
    LET own == {i \in 1..Len(dbSnapshots) : dbSnapshots[i].account_id = a}
    IN  IF own = {} THEN Null
        ELSE Some(dbSnapshots[CHOOSE i \in own : \A j \in own : j <= i].balance)

\* loadAccounts: COALESCE(latest.balance, a.balance, 0) per account
AccountsQuery ==
    [i \in 1..Len(dbAccounts) |->
        Account(dbAccounts[i].account_id,
                IF IsNull(LatestSnapshot(dbAccounts[i].account_id))
                THEN dbAccounts[i].balance
                ELSE Val(LatestSnapshot(dbAccounts[i].account_id)))]

\* a call of initialize() just started
NewCall ==
    [stage |-> "loading", accountsLoad |-> "pending", goalsLoad |-> "pending",
     iter |-> <<>>, next |-> 0, historyMap |-> EmptyMap,
     before |-> Some([goals |-> goals, accounts |-> accounts,
                      goalBalances |-> goalBalances, goalHistory |-> goalHistory])]

\* initialize() is between its first line and its finally block
InFlight(c) == c.stage \in {"loading", "history"}

Over(load) == IF load = "pending" THEN "pending" ELSE "over"

\* a call of initialize() that has returned; its loads may still be pending
Settled(c, stage) ==
    [stage |-> stage, accountsLoad |-> Over(c.accountsLoad), goalsLoad |-> Over(c.goalsLoad),
     iter |-> <<>>, next |-> 0, historyMap |-> EmptyMap, before |-> Null]

\* lines 57-61: loading = true; error = null; both loads are issued
initialize ==
    /\ Len(calls) < MaxCalls
    /\ loading' = TRUE
    /\ error' = Null
    /\ calls' = Append(calls, NewCall)
    /\ UNCHANGED <<goals, accounts, goalBalances, goalHistory, storage, now, pc, view, ui>>

\* $effect(() => { initialize(); })
Mount == calls = <<>> /\ initialize

\* sdk.onDataRefresh(() => { initialize(); })
DataRefresh == calls # <<>> /\ initialize

\* the Retry button of the error view
Retry == calls # <<>> /\ ~loading /\ ~IsNull(error) /\ initialize

\* the next goal of the loop of loadGoalHistory that has allocations, 0 if none
RECURSIVE NextLinked(_, _)
NextLinked(gs, i) ==
    IF i > Len(gs) THEN 0
    ELSE IF HasAllocations(gs[i]) THEN i
    ELSE NextLinked(gs, i + 1)

\* lines 62-63 once Promise.all has resolved: calculateBalances(), then
\* loadGoalHistory() up to its first query, or to its end when no goal has
\* allocations
AfterLoads(k, c, gs, accts) ==
    /\ goalBalances' = calculateBalances(gs, accts)
    /\ IF NextLinked(gs, 1) = 0
       THEN /\ goalHistory' = EmptyMap
            /\ loading' = FALSE
            /\ calls' = [calls EXCEPT ![k] = Settled(c, "done")]
       ELSE /\ calls' = [calls EXCEPT ![k] =
                            [c EXCEPT !.stage = "history", !.iter = gs,
                                      !.next = NextLinked(gs, 1)]]
            /\ UNCHANGED <<goalHistory, loading>>

\* the catch and finally blocks of initialize()
Abort(k, c) ==
    /\ error' = Some("query failed")
    /\ loading' = FALSE
    /\ calls' = [calls EXCEPT ![k] = Settled(c, "failed")]

LoadAccountsResolve(k) ==
    /\ calls[k].accountsLoad = "pending"
    /\ accounts' = AccountsQuery
    /\ LET c == [calls[k] EXCEPT !.accountsLoad = "ok"]
       IN  IF c.stage = "loading" /\ c.goalsLoad = "ok"
           THEN AfterLoads(k, c, goals, AccountsQuery)
           ELSE /\ calls' = [calls EXCEPT ![k] =
                                    IF InFlight(c) THEN c ELSE Settled(c, c.stage)]
                /\ UNCHANGED <<goalBalances, goalHistory, loading>>
    /\ UNCHANGED <<error, goals, storage, now, pc, view, ui>>

LoadGoalsResolve(k) ==
    /\ calls[k].goalsLoad = "pending"
    /\ goals' = GoalsQuery
    /\ LET c == [calls[k] EXCEPT !.goalsLoad = "ok"]
       IN  IF c.stage = "loading" /\ c.accountsLoad = "ok"
           THEN AfterLoads(k, c, GoalsQuery, accounts)
           ELSE /\ calls' = [calls EXCEPT ![k] =
                                    IF InFlight(c) THEN c ELSE Settled(c, c.stage)]
                /\ UNCHANGED <<goalBalances, goalHistory, loading>>
    /\ UNCHANGED <<error, accounts, storage, now, pc, view, ui>>

\* a rejected load rejects Promise.all the first time; a later one is ignored
LoadAccountsReject(k) ==
    /\ calls[k].accountsLoad = "pending"
    /\ LET c == [calls[k] EXCEPT !.accountsLoad = "failed"]
       IN  IF InFlight(c)
           THEN Abort(k, c)
           ELSE /\ calls' = [calls EXCEPT ![k] = Settled(c, c.stage)]
                /\ UNCHANGED <<error, loading>>
    /\ UNCHANGED <<goals, accounts, goalBalances, goalHistory, storage, now, pc, view, ui>>

LoadGoalsReject(k) ==
    /\ calls[k].goalsLoad = "pending"
    /\ LET c == [calls[k] EXCEPT !.goalsLoad = "failed"]
       IN  IF InFlight(c)
           THEN Abort(k, c)
           ELSE /\ calls' = [calls EXCEPT ![k] = Settled(c, c.stage)]
                /\ UNCHANGED <<error, loading>>
    /\ UNCHANGED <<goals, accounts, goalBalances, goalHistory, storage, now, pc, view, ui>>

\* the query of line 144 resolves for the goal the loop stands at
HistoryQueryResolve(k) ==
    /\ calls[k].stage = "history"
    /\ LET c == calls[k]
           goal == c.iter[c.next]
       IN  \E result \in HistoryQueryResults(dbSnapshots, AccountIdsOf(Val(goal.allocations))) :
              LET historyMap == Put(c.historyMap, goal.id, GoalHistoryFrom(goal, result))
              IN  IF NextLinked(c.iter, c.next + 1) = 0
                  THEN /\ goalHistory' = historyMap
                       /\ loading' = FALSE
                       /\ calls' = [calls EXCEPT ![k] = Settled(c, "done")]
                  ELSE /\ calls' = [calls EXCEPT ![k] =
                                       [c EXCEPT !.historyMap = historyMap,
                                                 !.next = NextLinked(c.iter, c.next + 1)]]
                       /\ UNCHANGED <<goalHistory, loading>>
    /\ UNCHANGED <<error, goals, accounts, goalBalances, storage, now, pc, view, ui>>

HistoryQueryReject(k) ==
    /\ calls[k].stage = "history"
    /\ Abort(k, calls[k])
    /\ UNCHANGED <<goals, accounts, goalBalances, goalHistory, storage, now, pc, view, ui>>

\* the host stores a new balance for an account
UpdateAccountBalance ==
    /\ \E i \in 1..Len(dbAccounts), b \in SnapshotBalances :
          /\ dbAccounts[i].balance # b
          /\ dbAccounts' = [dbAccounts EXCEPT ![i].balance = b]
    /\ UNCHANGED <<component, dbGoals, dbSnapshots, calls, now, pc, view, ui>>

\* the host records the day's balance of an account, one snapshot a day
RecordSnapshot ==
    /\ Len(dbSnapshots) < MaxSynced
    /\ \E i \in 1..Len(dbAccounts) :
          dbSnapshots' = Append(dbSnapshots,
              Row(Len(dbSnapshots) + 1, dbAccounts[i].account_id, dbAccounts[i].balance))
    /\ UNCHANGED <<component, dbGoals, dbAccounts, calls, now, pc, view, ui>>

Init ==
    /\ Idle
    /\ goals = <<>>
    /\ accounts = <<>>
    /\ dbGoals = <<ManualGoal, LinkedGoal>>
    /\ dbAccounts = <<Account("a1", 100)>>
    /\ dbSnapshots = <<>>
    /\ now = 0
    /\ pc = "ready"

Next ==
    \/ Mount
    \/ DataRefresh
    \/ Retry
    \/ \E k \in DOMAIN calls : LoadAccountsResolve(k)
    \/ \E k \in DOMAIN calls : LoadGoalsResolve(k)
    \/ \E k \in DOMAIN calls : LoadAccountsReject(k)
    \/ \E k \in DOMAIN calls : LoadGoalsReject(k)
    \/ \E k \in DOMAIN calls : HistoryQueryResolve(k)
    \/ \E k \in DOMAIN calls : HistoryQueryReject(k)
    \/ UpdateAccountBalance
    \/ RecordSnapshot

Spec == Init /\ [][Next]_vars


\* what goals, accounts, goalBalances and goalHistory were when call k started
Before(k) == Val(calls[k].before)

\* C8: when a retrieval of an initialize() call fails (loadAccounts, loadGoals
\* or a history query), goals, accounts, goalBalances and goalHistory are what
\* they were before that call, and error is set.
C8_FailureKeepsState ==
    [][\A k \in DOMAIN calls :
          (InFlight(calls[k]) /\ calls'[k].stage = "failed") =>
              /\ goals' = Before(k).goals
              /\ accounts' = Before(k).accounts
              /\ goalBalances' = Before(k).goalBalances
              /\ goalHistory' = Before(k).goalHistory
              /\ ~IsNull(error')]_vars

\* C9: whatever the host does to account balances and snapshots and however
\* often the data is refreshed, a loaded goal without allocations has its
\* starting balance as balance and as current amount, and, its target being
\* above its starting balance, a progress of 0.
C9_ManualGoalConstant ==
    \A i \in 1..Len(goals) :
        ~HasAllocations(goals[i]) =>
            /\ goals[i].id \in DOMAIN goalBalances =>
                  goalBalances[goals[i].id] = goals[i].starting_balance
            /\ getCurrentAmount(goals[i]) = goals[i].starting_balance
            /\ goals[i].target_amount > goals[i].starting_balance =>
                  QEq(getProgress(goals[i]), QInt(0))

\* a refresh in flight has recomputed the balances after the host changed the
\* account's balance and recorded snapshots: the linked goal's balance moved,
\* the manual goal's is in the map before and after
C9_Witness ==
    \E k \in DOMAIN calls :
        /\ calls[k].stage = "history"
        /\ dbSnapshots # <<>>
        /\ \E i \in 1..Len(goals) : goals[i] = ManualGoal
        /\ ManualGoal.id \in DOMAIN goalBalances
        /\ ManualGoal.id \in DOMAIN Before(k).goalBalances
        /\ LinkedGoal.id \in DOMAIN Before(k).goalBalances
        /\ Before(k).goalBalances[LinkedGoal.id] # goalBalances[LinkedGoal.id]


---------------------------------------------------------------------------
(* Monthly amount needed, under SpecSchedule                               *)

\* Math.ceil((target - now) / day) restated: the least whole number of days
\* that reaches the target date from now
WholeDaysUntil(d) ==
    CHOOSE n \in -(MaxDay + 2)..(MaxDay + 2) :
        /\ n * TicksPerDay >= DateTicks(d) - now
        /\ (n - 1) * TicksPerDay < DateTicks(d) - now

\* C11: getMonthlyNeeded is null when the goal has no target_date or its days
\* remaining are <= 0; otherwise it is max(0, target_amount - current) /
\* (daysRemaining / 30), never negative, and 0 once current >= target_amount.
C11_MonthlyNeeded ==
    ~IsNull(view) =>
        LET g == Rendered
            m == Val(view).monthlyNeeded
            current == ShownAmount(g)
        IN  IF IsNull(g.target_date) \/ WholeDaysUntil(Val(g.target_date)) <= 0
            THEN IsNull(m)
            ELSE LET days == WholeDaysUntil(Val(g.target_date))
                     remaining == IF g.target_amount > current
                                  THEN g.target_amount - current ELSE 0
                 IN  /\ ~IsNull(m)
                     /\ Val(m).den > 0
                     /\ Val(m).num * days = 30 * remaining * Val(m).den
                     /\ Val(m).num >= 0
                     /\ current >= g.target_amount => Val(m).num = 0

\* a deadline ahead and the balance above the target: nothing is needed
C11_Witness ==
    /\ ~IsNull(view)
    /\ ~IsNull(Rendered.target_date)
    /\ DateTicks(Val(Rendered.target_date)) > now
    /\ ShownAmount(Rendered) > Rendered.target_amount
    /\ Rendered.target_amount > 0
    /\ Val(view).monthlyNeeded = Some(Q(0, 1))


---------------------------------------------------------------------------
(* Shape of the stored history, under SpecHistory                          *)

\* the calendar dates on which an account of ids has a snapshot
SnapshotDatesOf(ids) ==
    {dbSnapshots[i].date : i \in {j \in 1..Len(dbSnapshots) : dbSnapshots[j].account_id \in ids}}

\* C12: the history stored for a goal is strictly ascending by date and has
\* exactly one point per calendar date on which a referenced account has a
\* snapshot; nothing is required of the order of its balances.
C12_HistoryOnePointPerDate ==
    pc = "done" =>
        \A i \in 1..Len(goals) :
            goals[i].id \in DOMAIN goalHistory =>
                LET h == goalHistory[goals[i].id]
                    dates == SnapshotDatesOf(AccountIdsOf(Val(goals[i].allocations)))
                IN  /\ \A j, k \in 1..Len(h) : j < k => h[j].date < h[k].date
                    /\ {h[k].date : k \in 1..Len(h)} = dates
                    /\ Len(h) = Cardinality(dates)

\* two accounts snapshotted on the same date and one of them again later with
\* less: one point for the shared date, and the balance falls
C12_Witness ==
    /\ pc = "done"
    /\ dbSnapshots = <<Row(1, "a1", 300), Row(1, "a2", 300), Row(2, "a1", 100)>>
    /\ \E i \in 1..Len(goals) :
          /\ HasAllocations(goals[i])
          /\ Val(goals[i].allocations) =
                <<Alloc("a1", "percentage", 50), Alloc("a2", "fixed", 200)>>
          /\ goals[i].id \in DOMAIN goalHistory
          /\ goalHistory[goals[i].id] = <<Point(1, 350), Point(2, 250)>>


---------------------------------------------------------------------------
(* The series of the chart, under SpecChart                                *)

\* the history with today's point unless its last date is today
WithToday(goal) ==
    LET h == HistoryOf(goal)
    IN  IF h # <<>> /\ h[Len(h)].date = DayOf(now) THEN h
        ELSE h \o <<Point(DayOf(now), ShownAmount(goal))>>

\* C13: the series the chart is drawn from is the history with the point
\* (today, current amount) appended unless the history ends today, and with
\* the point (creation date, starting_balance) put in front exactly when that
\* leaves fewer than 2 points; it has at least 2 points, so the chart is never
\* the empty one.
C13_SeriesHasTwoPoints ==
    ~IsNull(view) =>
        LET g == Rendered
            series == IF Len(WithToday(g)) < 2
                      THEN <<Point(DayOf(g.created_at), g.starting_balance)>> \o WithToday(g)
                      ELSE WithToday(g)
            points == Val(view).chartData.points
        IN  /\ Len(series) >= 2
            /\ ChartSeries(g) = series
            /\ Len(points) >= 2
            /\ Len(series) <= maxPoints => points = series

\* no history at all: the chart runs from the creation point to today's
C13_Witness ==
    /\ ~IsNull(view)
    /\ HistoryOf(Rendered) = <<>>
    /\ Val(view).chartData.points =
          <<Point(DayOf(Rendered.created_at), Rendered.starting_balance),
            Point(DayOf(now), ShownAmount(Rendered))>>


---------------------------------------------------------------------------
(* SpecDisplay: one goal rendered from the balances calculateBalances has  *)
(* just stored, over every allocation list and account list of the input   *)
(* domains                                                                 *)

InitDisplay ==
    /\ loading = FALSE /\ error = Null /\ calls = <<>> /\ view = Null /\ ui = ClosedUi
    /\ \E al \in AllocationsValues, start \in StartValues :
          goals = <<Goal("g1", 1000, Null, al, start, 0)>>
    /\ accounts \in AccountLists
    /\ goalBalances = calculateBalances(goals, accounts)
    /\ goalHistory = EmptyMap
    /\ dbGoals = <<>> /\ dbAccounts = <<>> /\ dbSnapshots = <<>>
    /\ now = TicksPerDay
    /\ pc = "ready"

NextDisplay == Render

SpecDisplay == InitDisplay /\ [][NextDisplay]_vars

\* C14: for a goal with allocations the current amount shown (and used for
\* the remaining amount and the pace projection) is the total
\* calculateBalances stored for it, a total of 0 or below included, and
\* progress is computed from that same value.
C14_CurrentIsComputedTotal ==
    ~IsNull(view) =>
        (HasAllocations(Rendered) =>
            LET g == Rendered
                total == RefTotal(Val(g.allocations), accounts)
                needed == g.target_amount - g.starting_balance
                p == Val(view).progress
            IN  /\ goalBalances[g.id] = total
                /\ Val(view).current = total
                /\ Val(view).remaining = Max(0, g.target_amount - total)
                /\ (0 < total - g.starting_balance /\ total < g.target_amount) =>
                        p.num * needed = 100 * (total - g.starting_balance) * p.den)


---------------------------------------------------------------------------
(* SpecCrud: the goal handlers (create, edit, delete, mark complete,       *)
(* reopen) on a mounted component.  Each handler runs to its end in one    *)
(* step: its write to plugin_goals.goals, then loadGoals() and, where the  *)
(* handler calls it, calculateBalances().                                  *)

\* loadGoals on a given state of the table
GoalsQueryOf(rows) == OrderGoals(rows, 1, <<>>)

\* crypto.randomUUID(): an id no goal ever had; a goal is created per tick
GoalIds == [n \in 0..(MaxCreated + 1) |->
              IF n = 0 THEN "g0" ELSE IF n = 1 THEN "g1"
              ELSE IF n = 2 THEN "g2" ELSE "g3"]

\* UPDATE plugin_goals.goals SET ... WHERE id = ?
UpdateRow(rows, id, columns) ==
    [i \in 1..Len(rows) |->
        IF rows[i].id = id
        THEN [c \in DOMAIN rows[i] |->
                IF c \in DOMAIN columns THEN columns[c] ELSE rows[i][c]]
        ELSE rows[i]]

\* DELETE FROM plugin_goals.goals WHERE id = ?
DeleteRow(rows, id) == SelectSeq(rows, LAMBDA r : r.id # id)

\* what the allocation editors of the two forms can hold
FormAllocations ==
    {<<>>, <<Alloc("a1", "percentage", 100)>>, <<Alloc("a2", "percentage", 100)>>}
FormTargets == {100, 1000}
FormStarts == {0, 500}

\* lines 235-270
createGoal(name, target, allocs, start) ==
    IF name = "" \/ target = 0
    THEN /\ ui' = [ui EXCEPT !.toast = Some("Name and target amount are required")]
         /\ UNCHANGED <<component, storage, calls, now, pc, view>>
    ELSE /\ now < MaxCreated
         /\ LET id == GoalIds[now]
                allocationsJson == IF Len(allocs) > 0 THEN Some(allocs) ELSE Null
                startingBalance == IF IsNull(start) THEN 0 ELSE Val(start)
                row == [Goal(id, target, Null, allocationsJson, startingBalance, now)
                            EXCEPT !.name = name]
            IN  /\ dbGoals' = Append(dbGoals, row)
                /\ goals' = GoalsQueryOf(Append(dbGoals, row))
                /\ goalBalances' =
                      calculateBalances(GoalsQueryOf(Append(dbGoals, row)), accounts)
         /\ ui' = resetForm([ui EXCEPT !.showAddGoal = FALSE])
         /\ now' = now + 1
         /\ UNCHANGED <<loading, error, accounts, goalHistory, dbAccounts, dbSnapshots,
                        calls, pc, view>>

CreateGoal ==
    \E target \in FormTargets, allocs \in FormAllocations, start \in FormStarts :
        createGoal("goal", target, allocs, Some(start))

\* lines 272-305, on the copy of a loaded goal the edit form has changed
updateGoal(goal) ==
    /\ LET rows == UpdateRow(dbGoals, goal.id,
                      [name |-> goal.name,
                       target_amount |-> goal.target_amount,
                       target_date |-> goal.target_date,
                       allocations |-> goal.allocations,
                       starting_balance |-> goal.starting_balance])
       IN  /\ dbGoals' = rows
           /\ goals' = GoalsQueryOf(rows)
           /\ goalBalances' = calculateBalances(GoalsQueryOf(rows), accounts)
    /\ ui' = [ui EXCEPT !.editingGoal = Null, !.sameAs = <<>>, !.opened = Null]
    /\ UNCHANGED <<loading, error, accounts, goalHistory, dbAccounts, dbSnapshots,
                   calls, now, pc, view>>

\* the Edit button of an active goal's card, the form, then Save
UpdateGoal ==
    \E i \in 1..Len(goals), target \in FormTargets, start \in FormStarts :
        \E allocs \in {goals[i].allocations} \cup {Some(a) : a \in FormAllocations} :
            /\ ~goals[i].completed
            /\ LET editingGoal == [goals[i] EXCEPT !.target_amount = target,
                                                   !.allocations = allocs,
                                                   !.starting_balance = start]
               IN  /\ editingGoal # goals[i]
                   /\ updateGoal(editingGoal)

\* lines 307-311
deleteGoal(id) ==
    /\ dbGoals' = DeleteRow(dbGoals, id)
    /\ goals' = GoalsQueryOf(DeleteRow(dbGoals, id))
    /\ UNCHANGED <<loading, error, accounts, goalBalances, goalHistory, dbAccounts,
                   dbSnapshots, calls, now, pc, view, ui>>

DeleteGoal == \E i \in 1..Len(goals) : deleteGoal(goals[i].id)

\* lines 313-330
markComplete(goal) ==
    /\ LET rows == UpdateRow(dbGoals, goal.id,
                      [completed |-> TRUE, completed_at |-> Some(now)])
       IN  /\ dbGoals' = rows
           /\ goals' = GoalsQueryOf(rows)
    /\ UNCHANGED <<loading, error, accounts, goalBalances, goalHistory, dbAccounts,
                   dbSnapshots, calls, now, pc, view, ui>>

\* the button of line 781: an active goal whose progress is at least 100
MarkComplete ==
    \E i \in 1..Len(goals) :
        /\ ~goals[i].completed
        /\ QGe(getProgress(goals[i]), QInt(100))
        /\ markComplete(goals[i])

\* completed_at = NULL left out
reopenGoalKeepsTimestamp(goal) ==
    /\ LET rows == UpdateRow(dbGoals, goal.id, [completed |-> FALSE])
       IN  /\ dbGoals' = rows
           /\ goals' = GoalsQueryOf(rows)
    /\ UNCHANGED <<loading, error, accounts, goalBalances, goalHistory, dbAccounts,
                   dbSnapshots, calls, now, pc, view, ui>>

\* lines 332-341
reopenGoal(goal) ==
    /\ LET rows == UpdateRow(dbGoals, goal.id,
                      [completed |-> FALSE, completed_at |-> Null])
       IN  /\ dbGoals' = rows
           /\ goals' = GoalsQueryOf(rows)
    /\ UNCHANGED <<loading, error, accounts, goalBalances, goalHistory, dbAccounts,
                   dbSnapshots, calls, now, pc, view, ui>>

\* the Reopen button of a completed goal
ReopenGoal == \E i \in 1..Len(goals) : goals[i].completed /\ reopenGoal(goals[i])

\* let activeGoals = $derived(...), let completedGoals = $derived(...)
activeGoals == SelectSeq(goals, LAMBDA g : ~g.completed)
completedGoals == SelectSeq(goals, LAMBDA g : g.completed)

\* a component that initialize() has loaded from an installation without goals
InitCrud ==
    /\ loading = FALSE /\ error = Null /\ calls = <<>> /\ view = Null /\ ui = ClosedUi
    /\ dbGoals = <<>>
    /\ dbAccounts = <<Account("a1", 100), Account("a2", 300)>>
    /\ dbSnapshots = <<Row(1, "a1", 100), Row(2, "a2", 300)>>
    /\ goals = <<>>
    /\ accounts = AccountsQuery
    /\ goalBalances = EmptyMap
    /\ goalHistory = EmptyMap
    /\ now = 0
    /\ pc = "ready"

NextCrud ==
    \/ CreateGoal
    \/ UpdateGoal
    \/ DeleteGoal
    \/ MarkComplete
    \/ ReopenGoal

SpecCrud == InitCrud /\ [][NextCrud]_vars


\* how often the goal with this id occurs in a list
Occurrences(list, id) == Cardinality({k \in 1..Len(list) : list[k].id = id})

\* C15: whatever goals are created, completed, reopened and deleted, every
\* loaded goal has completed = TRUE exactly when completed_at is set and is
\* in exactly one of activeGoals and completedGoals; reopening a completed
\* goal puts it into activeGoals with completed_at cleared.
C15_CompletedIffTimestamp ==
    /\ [](\A i \in 1..Len(goals) :
            /\ goals[i].completed <=> ~IsNull(goals[i].completed_at)
            /\ Occurrences(activeGoals, goals[i].id)
                 + Occurrences(completedGoals, goals[i].id) = 1
            /\ Occurrences(activeGoals, goals[i].id) = 1 <=> ~goals[i].completed)
    /\ [][\A i \in 1..Len(goals) :
            (goals[i].completed /\ dbGoals' = UpdateRow(dbGoals, goals[i].id,
                    [completed |-> FALSE, completed_at |-> Null])) =>
                \E k \in 1..Len(goals') :
                    /\ goals'[k].id = goals[i].id
                    /\ ~goals'[k].completed
                    /\ IsNull(goals'[k].completed_at)
                    /\ goals'[k] = [goals[i] EXCEPT !.completed = FALSE, !.completed_at = Null]]_vars

\* one goal marked complete next to one that is active
C15_Witness ==
    /\ Len(completedGoals) = 1
    /\ Len(activeGoals) = 1
    /\ ~IsNull(completedGoals[1].completed_at)
    /\ IsNull(activeGoals[1].completed_at)


\* the ids of a list of goals
IdsOf(gs) == {gs[i].id : i \in 1..Len(gs)}

\* balances and histories are those a recomputation from these goals,
\* accounts and snapshots gives: an entry per goal and none besides
Rederived(gs, accts, snapshots, balances, histories) ==
    /\ DOMAIN balances = IdsOf(gs)
    /\ DOMAIN histories = IdsOf(SelectSeq(gs, HasAllocations))
    /\ \A i \in 1..Len(gs) :
          /\ balances[gs[i].id] =
                (IF HasAllocations(gs[i])
                 THEN RefTotal(Val(gs[i].allocations), accts)
                 ELSE gs[i].starting_balance)
          /\ HasAllocations(gs[i]) =>
                histories[gs[i].id] \in
                    {GoalHistoryFrom(gs[i], result) :
                        result \in HistoryQueryResults(snapshots,
                                        AccountIdsOf(Val(gs[i].allocations)))}

\* C20: when createGoal or updateGoal has completed, goalBalances and
\* goalHistory hold for every loaded goal the balance and the history derived
\* from its current allocations, with no entry missing or left over.
C20_RederivedAfterEdit ==
    [][(CreateGoal \/ UpdateGoal) =>
          Rederived(goals', accounts', dbSnapshots', goalBalances', goalHistory')]_vars


---------------------------------------------------------------------------
(* A target date at or before the creation time, under SpecSchedule        *)

\* C16: for a goal whose target_date is at or before its created_at (total
\* duration <= 0) isOnTrack is TRUE, whatever the days remaining and the
\* progress are.
C16_DegenerateDurationOnTrack ==
    ~IsNull(view) =>
        ((/\ ~IsNull(Rendered.target_date)
          /\ DateTicks(Val(Rendered.target_date)) <= Rendered.created_at) =>
            Val(view).onTrack = Some(TRUE))

---------------------------------------------------------------------------
(* Several snapshots of an account on one date, under SpecHistory          *)

\* the balance of the chronologically latest snapshot of account a up to
\* date d (the table is in snapshot_time order), 0 when there is none
LatestBalanceUpTo(a, d) ==
    LET own == {i \in 1..Len(dbSnapshots) :
                    dbSnapshots[i].account_id = a /\ dbSnapshots[i].date <= d}
    IN  IF own = {} THEN 0
        ELSE dbSnapshots[CHOOSE i \in own : \A j \in own : j <= i].balance

\* C17: on every date of a goal's history each account counts with the
\* balance of its chronologically latest snapshot of that date (carried
\* forward from its latest earlier one otherwise), in whatever order the
\* query returned the rows of a date.
C17_LatestSnapshotOfDate ==
    pc = "done" =>
        \A i \in 1..Len(goals) :
            goals[i].id \in DOMAIN goalHistory =>
                \A k \in 1..Len(goalHistory[goals[i].id]) :
                    LET point == goalHistory[goals[i].id][k]
                        allocs == Val(goals[i].allocations)
                    IN  point.balance =
                            RefHistoryTotal(allocs,
                                [a \in AccountIdsOf(allocs) |-> LatestBalanceUpTo(a, point.date)])


---------------------------------------------------------------------------
(* The fallback of the pace projection, under SpecPace                     *)

\* the history has fewer than 2 points or spans less than a day
HistoryTooShort(goal) ==
    LET h == HistoryOf(goal)
    IN  Len(h) < 2 \/ h[Len(h)].date - h[1].date < 1

\* C18: with a history of fewer than 2 points or of less than a day, and
\* current < target_amount, the projection is null if less than a day has
\* passed since created_at or if current - starting_balance <= 0; otherwise it
\* is the day reached from now by (target_amount - current) /
\* ((current - starting_balance) / daysSinceCreation) days.
C18_FallbackProjection ==
    ~IsNull(view) =>
        LET g == Rendered
            current == ShownAmount(g)
            age == now - g.created_at
            made == current - g.starting_balance
            p == Val(view).paceProjection
        IN  (HistoryTooShort(g) /\ current < g.target_amount) =>
                IF age < TicksPerDay \/ made <= 0
                THEN IsNull(p)
                ELSE /\ ~IsNull(p)
                     \* daysToGoal = (target - current) * age / (made * TicksPerDay)
                     /\ (Val(p) - now) * made <= (g.target_amount - current) * age
                     /\ (g.target_amount - current) * age < (Val(p) - now + TicksPerDay) * made

\* no history, a day and a half since creation, 300 saved of 1000
C18_Witness ==
    /\ ~IsNull(view)
    /\ HistoryOf(Rendered) = <<>>
    /\ Rendered.starting_balance = 0
    /\ ShownAmount(Rendered) = 300
    /\ now - Rendered.created_at > TicksPerDay
    /\ ~IsNull(Val(view).paceProjection)
    /\ Val(Val(view).paceProjection) > now


---------------------------------------------------------------------------
(* The downsampling step against its reference, under SpecChart            *)

\* round(1 + (i - 1) * (n - 2) / 16), halves rounded up
RefIndex(n, i) == (2 * 16 + 2 * (i - 1) * (n - 2) + 16) \div (2 * 16)

\* the reference on a series p, positions counted from 0 as in the claim
RefSample(p) ==
    LET n == Len(p)
    IN  IF n <= 18 THEN p
        ELSE [j \in 1..18 |->
                IF j = 1 THEN p[1]
                ELSE IF j = 18 THEN p[n]
                ELSE p[RefIndex(n, j - 1) + 1]]

\* C19: the downsampled series is the series itself up to 18 points, and
\* otherwise the 18 points p[0], p[round(1 + (i - 1) * (n - 2) / 16)] for
\* i = 1..16, p[n - 1]; every interior index is within 1..n-2 and every
\* point of the output is a point of the input.
C19_DownsampleIsReference ==
    ~IsNull(view) =>
        LET p == ChartSeries(Rendered)
            n == Len(p)
            points == Val(view).chartData.points
        IN  /\ points = RefSample(p)
            /\ n > 18 => \A i \in 1..16 : 1 <= RefIndex(n, i) /\ RefIndex(n, i) <= n - 2
            /\ \A k \in 1..Len(points) : \E j \in 1..n : points[k] = p[j]

\* a series of more than 18 points of which an interior one was dropped
C19_Witness ==
    /\ ~IsNull(view)
    /\ Len(ChartSeries(Rendered)) > 18
    /\ Len(Val(view).chartData.points) = 18
    /\ \E j \in 2..(Len(ChartSeries(Rendered)) - 1) :
          \A k \in 1..18 : Val(view).chartData.points[k] # ChartSeries(Rendered)[j]

---------------------------------------------------------------------------
\* the share of a balance a percentage allocation would take if its value
\* were limited to 0..100 where it is used
ClampedPercent(value) == Max(0, Min(100, value))

ClampedContribution(alloc, accts) ==
    IF RefAccounts(alloc, accts) = {} THEN 0
    ELSE LET bal == accts[CHOOSE k \in RefAccounts(alloc, accts) : TRUE].balance
         IN  IF alloc.allocation_type = "percentage"
             THEN (bal * ClampedPercent(alloc.allocation_value)) \div 100
             ELSE IF alloc.allocation_value < bal THEN alloc.allocation_value ELSE bal

RECURSIVE ClampedTotal(_, _)
ClampedTotal(allocs, accts) ==
    IF allocs = <<>> THEN 0
    ELSE ClampedContribution(Head(allocs), accts) + ClampedTotal(Tail(allocs), accts)

\* C21: a percentage allocation whose value lies outside 0..100 is taken as
\* the nearest of 0 and 100 when the balance of a goal is computed, so the
\* goal never receives more than the whole balance of an account.
C21_PercentageClamped ==
    pc = "done" =>
        \A i \in 1..Len(goals) :
            HasAllocations(goals[i]) =>
                goalBalances[goals[i].id] =
                    ClampedTotal(Val(goals[i].allocations), accounts)

---------------------------------------------------------------------------
\* the snapshots of the accounts a goal's allocations refer to, in table order
ReferencedSnapshots(goal) ==
    LET ids == {Val(goal.allocations)[k].account_id : k \in 1..Len(Val(goal.allocations))}
        keep == {j \in 1..Len(dbSnapshots) : dbSnapshots[j].account_id \in ids}
        Pos(n) == CHOOSE j \in keep : Cardinality({m \in keep : m < j}) = n - 1
    IN  [n \in 1..Cardinality(keep) |-> dbSnapshots[Pos(n)]]

\* the date-ordered arrangements of a list of rows
DateOrderings(rows) ==
    {r \in {[i \in 1..Len(rows) |-> rows[p[i]]] : p \in IndexPermutations(Len(rows))} :
        IsDateOrdered(r)}

\* what the history of a goal can be when the table holds nothing but the
\* snapshots of the accounts the goal refers to
HistoriesOfReferenced(goal) ==
    {GoalHistoryFrom(goal, r) : r \in DateOrderings(ReferencedSnapshots(goal))}

OneSnapshotPerAccountAndDate(rows) ==
    \A i, j \in 1..Len(rows) :
        (i # j /\ rows[i].account_id = rows[j].account_id) => rows[i].date # rows[j].date

\* C22: the history stored for a goal is a history of the snapshots of the
\* accounts its allocations refer to, whatever the table holds for other
\* accounts, so two tables that agree on those accounts give the same
\* histories; it is the only such history when no account has two snapshots
\* of one date; a goal without allocations has no history.
C22_HistoryOfReferencedAccounts ==
    pc = "done" =>
        \A i \in 1..Len(goals) :
            IF HasAllocations(goals[i])
            THEN /\ goals[i].id \in DOMAIN goalHistory
                 /\ goalHistory[goals[i].id] \in HistoriesOfReferenced(goals[i])
                 /\ OneSnapshotPerAccountAndDate(ReferencedSnapshots(goals[i])) =>
                        HistoriesOfReferenced(goals[i]) = {goalHistory[goals[i].id]}
            ELSE /\ goals[i].id \notin DOMAIN goalHistory
                 /\ HistoryOf(goals[i]) = <<>>

\* a goal on a1 alone, a table with snapshots of a1 and of a2
C22_Witness ==
    /\ pc = "done"
    /\ dbSnapshots = <<Row(1, "a2", 300), Row(2, "a1", 100), Row(3, "a2", 100)>>
    /\ \E i \in 1..Len(goals) :
          /\ HasAllocations(goals[i])
          /\ Val(goals[i].allocations) = <<Alloc("a1", "percentage", 100)>>
          /\ goals[i].id \in DOMAIN goalHistory
          /\ goalHistory[goals[i].id] = <<Point(2, 100)>>
    /\ "manual" \notin DOMAIN goalHistory

---------------------------------------------------------------------------
\* C23: loading is true as long as a call of initialize() is between its
\* first line and its finally block, also when calls overlap.
C23_LoadingWhileInFlight ==
    (\E k \in 1..Len(calls) : InFlight(calls[k])) => loading = TRUE

\* C24: once no call of initialize() is in flight, error is set exactly
\* when the call that started last failed.
C24_ErrorOfLatestCall ==
    (calls # <<>> /\ \A k \in 1..Len(calls) : ~InFlight(calls[k])) =>
        (~IsNull(error) <=> calls[Len(calls)].stage = "failed")

---------------------------------------------------------------------------
\* the longest series whose indices are enumerated
MaxSampled == 64

\* the indices (from 0) of the points kept of a series of n > 18 points
KeptIndices(n) ==
    [k \in 1..maxPoints |->
        IF k = 1 THEN 0
        ELSE IF k = maxPoints THEN n - 1
        ELSE SampleIndex(n, k - 1)]

\* C25: of a series of more than 18 points, exactly 18 are drawn; the
\* indices of the points drawn are strictly increasing, so no point of the
\* series is drawn twice and the points drawn are in the date order of the
\* series.
C25_SampledIndicesIncrease ==
    ~IsNull(view) =>
        LET p == ChartSeries(Rendered)
            n == Len(p)
            points == Val(view).chartData.points
            idx == KeptIndices(n)
        IN  n > maxPoints =>
                /\ Len(points) = maxPoints
                /\ \A k \in 1..maxPoints :
                      /\ idx[k] \in 0..(n - 1)
                      /\ points[k] = p[idx[k] + 1]
                /\ \A m \in (maxPoints + 1)..MaxSampled :
                      \A j, k \in 1..maxPoints :
                          /\ KeptIndices(m)[k] \in 0..(m - 1)
                          /\ j < k => KeptIndices(m)[j] < KeptIndices(m)[k]
                /\ \A j, k \in 1..Len(points) : j < k => points[j] # points[k]
                /\ (\A j, k \in 1..n : j < k => p[j].date < p[k].date) =>
                      \A j, k \in 1..Len(points) : j < k => points[j].date < points[k].date

\* a series of more than 19 points, drawn in date order
C25_Witness ==
    /\ ~IsNull(view)
    /\ Len(ChartSeries(Rendered)) > maxPoints + 1
    /\ \A j, k \in 1..Len(ChartSeries(Rendered)) :
          j < k => ChartSeries(Rendered)[j].date < ChartSeries(Rendered)[k].date
    /\ Len(Val(view).chartData.points) = maxPoints
    /\ Val(view).chartData.points[2] = ChartSeries(Rendered)[2]
    /\ Val(view).chartData.points[maxPoints - 1].date
          < Val(view).chartData.points[maxPoints].date

---------------------------------------------------------------------------
\* C27: an active goal shown at 100 percent has nothing left to save: when
\* its progress is 100, its remaining amount is 0.
C27_FullProgressNothingRemaining ==
    (~IsNull(view) /\ ~Rendered.completed /\ QEq(Val(view).progress, QInt(100))) =>
        Val(view).remaining = 0

---------------------------------------------------------------------------
\* the daily rates a projection can rest on: the rate of a history of at
\* least 2 points spanning at least a day, and the rate since a creation at
\* least a day back
PaceRates(goal) ==
    LET h == HistoryOf(goal)
    IN  (IF Len(h) >= 2 /\ h[Len(h)].date - h[1].date >= 1
         THEN {Q(h[Len(h)].balance - h[1].balance, h[Len(h)].date - h[1].date)}
         ELSE {})
        \cup
        (IF now - goal.created_at >= TicksPerDay
         THEN {Q((ShownAmount(goal) - goal.starting_balance) * TicksPerDay,
                 now - goal.created_at)}
         ELSE {})

\* C30: whenever a projected date is returned, the current amount is below
\* the target and the daily rate used is positive, so the number of days
\* added to today is positive and the projected date is not earlier than
\* the moment of the call.
C30_ProjectionInFuture ==
    (~IsNull(view) /\ ~IsNull(Val(view).paceProjection)) =>
        LET goal == Rendered
            remaining == goal.target_amount - ShownAmount(goal)
            projected == Val(Val(view).paceProjection)
        IN  /\ remaining > 0
            /\ \E rate \in PaceRates(goal) :
                  /\ rate.num > 0 /\ rate.den > 0
                  /\ QGt(QDiv(QInt(remaining), rate), QInt(0))
                  /\ projected = now + QTrunc(QDiv(QInt(remaining), rate)) * TicksPerDay
            /\ projected >= now

\* a projection from a rising history, some days ahead
C30_Witness ==
    /\ ~IsNull(view)
    /\ ~IsNull(Val(view).paceProjection)
    /\ Len(HistoryOf(Rendered)) >= 2
    /\ HistoryOf(Rendered)[Len(HistoryOf(Rendered))].balance > HistoryOf(Rendered)[1].balance
    /\ ShownAmount(Rendered) < Rendered.target_amount
    /\ Val(Val(view).paceProjection) > now

---------------------------------------------------------------------------
(* The Add Goal dialog: the new-goal form, its allocation rows, createGoal *)

\* what the user types into the name, target amount and starting amount
\* fields (the number inputs carry min="0", which marks a negative entry
\* invalid but does not keep it out of the bound variable)
TypedNames == {"", "goal"}
TypedTargets == {-100, 0, 100}
TypedStarts == {Null, Some(500)}

\* accounts.find(a => !usedIds.has(a.account_id)): index of the first loaded
\* account no allocation of the list refers to, 0 if there is none
RECURSIVE FirstAvailable(_, _, _)
FirstAvailable(accts, allocs, i) ==
    IF i > Len(accts) THEN 0
    ELSE IF accts[i].account_id \notin {allocs[k].account_id : k \in 1..Len(allocs)}
         THEN i
    ELSE FirstAvailable(accts, allocs, i + 1)

\* allocs.filter((_, i) => i !== index), index counted from 1
WithoutIndex(allocs, index) ==
    [k \in 1..(Len(allocs) - 1) |-> IF k < index THEN allocs[k] ELSE allocs[k + 1]]

\* the "+ New Goal" buttons, lines 633 and 655
OpenAddGoal ==
    /\ ~ui.showAddGoal /\ IsNull(ui.editingGoal)
    /\ ui' = [ui EXCEPT !.showAddGoal = TRUE]
    /\ UNCHANGED <<component, storage, calls, now, pc, view>>

\* bind:value={newGoalName}, line 873
SetNewGoalName ==
    /\ ui.showAddGoal
    /\ \E name \in TypedNames : ui' = [ui EXCEPT !.newGoalName = name]
    /\ UNCHANGED <<component, storage, calls, now, pc, view>>

\* bind:value={newGoalTargetAmount}, line 882
SetNewGoalTargetAmount ==
    /\ ui.showAddGoal
    /\ \E target \in TypedTargets : ui' = [ui EXCEPT !.newGoalTargetAmount = target]
    /\ UNCHANGED <<component, storage, calls, now, pc, view>>

\* bind:value={newGoalStartAmount}, line 893
SetNewGoalStartAmount ==
    /\ ui.showAddGoal
    /\ \E start \in TypedStarts : ui' = [ui EXCEPT !.newGoalStartAmount = start]
    /\ UNCHANGED <<component, storage, calls, now, pc, view>>

\* lines 355-369
addAllocation ==
    /\ ui.showAddGoal
    /\ IF Len(accounts) = 0 THEN UNCHANGED ui
       ELSE LET available == FirstAvailable(accounts, ui.newGoalAllocations, 1)
            IN  IF available = 0
                THEN ui' = [ui EXCEPT !.toast = Some("All accounts already allocated")]
                ELSE ui' = [ui EXCEPT !.newGoalAllocations =
                               Append(@, Alloc(accounts[available].account_id,
                                               "percentage", 100))]
    /\ UNCHANGED <<component, storage, calls, now, pc, view>>

\* lines 371-373, from the remove button of row index
removeAllocation(index) ==
    /\ ui.showAddGoal
    /\ ui' = [ui EXCEPT !.newGoalAllocations = WithoutIndex(@, index)]
    /\ UNCHANGED <<component, storage, calls, now, pc, view>>

RemoveAllocation ==
    \E index \in 1..Len(ui.newGoalAllocations) : removeAllocation(index)

\* the Cancel button, lines 961-968
CancelAddGoal ==
    /\ ui.showAddGoal
    /\ ui' = resetForm([ui EXCEPT !.showAddGoal = FALSE])
    /\ UNCHANGED <<component, storage, calls, now, pc, view>>

\* a click on the backdrop, line 835: the form keeps what was typed
DismissAddGoal ==
    /\ ui.showAddGoal
    /\ ui' = [ui EXCEPT !.showAddGoal = FALSE]
    /\ UNCHANGED <<component, storage, calls, now, pc, view>>

\* the Create Goal button, line 970
SubmitNewGoal ==
    /\ ui.showAddGoal
    /\ createGoal(ui.newGoalName, ui.newGoalTargetAmount, ui.newGoalAllocations,
                  ui.newGoalStartAmount)

\* a mounted component with nothing stored yet and one account or none
InitForm ==
    /\ loading = FALSE /\ error = Null /\ calls = <<>> /\ view = Null /\ ui = ClosedUi
    /\ dbGoals = <<>>
    /\ dbAccounts \in {<<>>, <<Account("a1", 100)>>}
    /\ dbSnapshots = <<>>
    /\ goals = <<>>
    /\ accounts = dbAccounts
    /\ goalBalances = EmptyMap
    /\ goalHistory = EmptyMap
    /\ now = 0
    /\ pc = "ready"

NextForm ==
    \/ OpenAddGoal
    \/ SetNewGoalName
    \/ SetNewGoalTargetAmount
    \/ SetNewGoalStartAmount
    \/ addAllocation
    \/ RemoveAllocation
    \/ CancelAddGoal
    \/ DismissAddGoal
    \/ SubmitNewGoal

SpecForm == InitForm /\ [][NextForm]_vars

\* a step of createGoal that found the form incomplete
Rejected ==
    /\ ui.showAddGoal
    /\ ui.newGoalName = "" \/ ui.newGoalTargetAmount = 0
    /\ ui'.toast = Some("Name and target amount are required")
    /\ ui'.toast # ui.toast

\* a goal is inserted only from a form with a name and a non-zero target
\* amount; a rejected createGoal changes nothing but the error shown
InsertsOnlyCompleteForms ==
    /\ dbGoals' # dbGoals =>
          /\ ui.newGoalName # "" /\ ui.newGoalTargetAmount # 0
          /\ Len(dbGoals') = Len(dbGoals) + 1
          /\ dbGoals'[Len(dbGoals')].name = ui.newGoalName
          /\ dbGoals'[Len(dbGoals')].target_amount = ui.newGoalTargetAmount
    /\ Rejected =>
          /\ UNCHANGED <<dbGoals, goals, goalBalances, goalHistory>>
          /\ ui' = [ui EXCEPT !.toast = ui'.toast]

\* C28: createGoal inserts a goal only when the form has a non-empty name
\* and a non-zero target amount, and otherwise reports an error and leaves
\* the stored goals, the loaded goals, the form and the dialog as they are;
\* so every goal created has a positive target_amount.
C28_CreatedGoalsHavePositiveTarget ==
    /\ [][InsertsOnlyCompleteForms]_vars
    /\ [](\A i \in 1..Len(dbGoals) : dbGoals[i].target_amount > 0)

---------------------------------------------------------------------------
(* The Edit Goal dialog: editingGoal = { ...goal } is a copy of the goal's  *)
(* fields only; the allocation objects of the copy are those of the listed *)
(* goal until the copy is given objects of its own.                        *)

\* what the user types into the target amount of the dialog and into the
\* value of an allocation row
EditedTargets == {100}
EditedValues == {50}

\* the goals one of which is stored when the dialog is exercised: a goal
\* without allocations, one on a loaded account, one on an account that is
\* no longer loaded
EditableGoals ==
    {Goal("g1", 1000, Null, a, 0, 0) :
        a \in {Null,
               Some(<<Alloc("a1", "percentage", 100)>>),
               Some(<<Alloc("gone", "percentage", 50)>>)}}

\* position in goals of the goal the copy was made of
ListedIndex(id) == CHOOSE i \in 1..Len(goals) : goals[i].id = id

\* the Edit button of a goal's card, line 697: editingGoal = { ...goal }
OpenEdit ==
    /\ IsNull(ui.editingGoal) /\ ~ui.showAddGoal
    /\ \E i \in 1..Len(goals) :
          /\ ~goals[i].completed
          /\ ui' = [ui EXCEPT
                      !.editingGoal = Some(goals[i]),
                      !.sameAs = IF IsNull(goals[i].allocations) THEN <<>>
                                 ELSE [k \in 1..Len(Val(goals[i].allocations)) |-> k],
                      !.opened = Some(goals)]
    /\ UNCHANGED <<component, storage, calls, now, pc, view>>

\* bind:value={editingGoal.target_amount}, line 1022: a field of the copy
SetEditTargetAmount ==
    /\ ~IsNull(ui.editingGoal)
    /\ \E target \in EditedTargets :
          ui' = [ui EXCEPT !.editingGoal = Some([Val(@) EXCEPT !.target_amount = target])]
    /\ UNCHANGED <<component, storage, calls, now, pc, view>>

\* bind:value={alloc.allocation_value}, line 1079: a field of the allocation
\* object, which the listed goal sees when the object is its own (the account
\* and type selects of the row, lines 1066 and 1073, write the same way)
SetEditAllocationValue ==
    /\ ~IsNull(ui.editingGoal)
    /\ ~IsNull(Val(ui.editingGoal).allocations)
    /\ \E k \in 1..Len(Val(Val(ui.editingGoal).allocations)), value \in EditedValues :
          LET i == ListedIndex(Val(ui.editingGoal).id)
          IN  /\ ui' = [ui EXCEPT !.editingGoal =
                          Some([Val(@) EXCEPT !.allocations =
                                  Some([Val(@) EXCEPT ![k].allocation_value = value])])]
              /\ goals' = IF ui.sameAs[k] = 0 THEN goals
                          ELSE [goals EXCEPT ![i].allocations =
                                  Some([Val(@) EXCEPT ![ui.sameAs[k]].allocation_value = value])]
    /\ UNCHANGED <<loading, error, accounts, goalBalances, goalHistory, storage,
                   calls, now, pc, view>>

\* lines 375-388, called with the copy: the copy gets a new array holding
\* the objects it had and one new object
addEditAllocation ==
    /\ ~IsNull(ui.editingGoal)
    /\ LET goal == Val(ui.editingGoal)
           allocations == IF IsNull(goal.allocations) THEN <<>> ELSE Val(goal.allocations)
           available == FirstAvailable(accounts, allocations, 1)
       IN  IF available = 0
           THEN ui' = [ui EXCEPT
                         !.editingGoal = Some([goal EXCEPT !.allocations = Some(allocations)]),
                         !.toast = Some("All accounts already allocated")]
           ELSE ui' = [ui EXCEPT
                         !.editingGoal = Some([goal EXCEPT !.allocations =
                             Some(Append(allocations,
                                         Alloc(accounts[available].account_id,
                                               "percentage", 100)))]),
                         !.sameAs = Append(@, 0)]
    /\ UNCHANGED <<component, storage, calls, now, pc, view>>

\* lines 390-393, called with the copy and the index of a row
removeEditAllocation(index) ==
    /\ ~IsNull(ui.editingGoal)
    /\ ~IsNull(Val(ui.editingGoal).allocations)
    /\ ui' = [ui EXCEPT
                !.editingGoal = Some([Val(@) EXCEPT !.allocations =
                                        Some(WithoutIndex(Val(@), index))]),
                !.sameAs = WithoutIndex(@, index)]
    /\ UNCHANGED <<component, storage, calls, now, pc, view>>

RemoveEditAllocation ==
    /\ ~IsNull(ui.editingGoal)
    /\ ~IsNull(Val(ui.editingGoal).allocations)
    /\ \E index \in 1..Len(Val(Val(ui.editingGoal).allocations)) :
          removeEditAllocation(index)

\* the Cancel button and the backdrop, lines 1099 and 979: editingGoal = null
CancelEdit ==
    /\ ~IsNull(ui.editingGoal)
    /\ ui' = [ui EXCEPT !.editingGoal = Null, !.sameAs = <<>>, !.opened = Null]
    /\ UNCHANGED <<component, storage, calls, now, pc, view>>

\* the Save Changes button, line 1102
SaveEdit ==
    /\ ~IsNull(ui.editingGoal)
    /\ updateGoal(Val(ui.editingGoal))

\* a mounted component with two accounts and one stored goal
InitEdit ==
    /\ loading = FALSE /\ error = Null /\ calls = <<>> /\ view = Null /\ ui = ClosedUi
    /\ dbGoals \in {<<g>> : g \in EditableGoals}
    /\ dbAccounts = <<Account("a1", 100), Account("a2", 300)>>
    /\ dbSnapshots = <<>>
    /\ goals = GoalsQueryOf(dbGoals)
    /\ accounts = dbAccounts
    /\ goalBalances = calculateBalances(goals, accounts)
    /\ goalHistory = EmptyMap
    /\ now = 0
    /\ pc = "ready"

NextEdit ==
    \/ OpenEdit
    \/ SetEditTargetAmount
    \/ SetEditAllocationValue
    \/ addEditAllocation
    \/ RemoveEditAllocation
    \/ CancelEdit
    \/ SaveEdit

SpecEdit == InitEdit /\ [][NextEdit]_vars

\* C26: cancelling the edit dialog leaves the goals list, and the balances
\* derived from it, as they were when the dialog was opened, whatever was
\* changed in the dialog.
C26_CancelRestoresGoal ==
    [][(~IsNull(ui.editingGoal) /\ IsNull(ui'.editingGoal) /\ dbGoals' = dbGoals) =>
          /\ goals' = Val(ui.opened)
          /\ calculateBalances(goals', accounts') =
                calculateBalances(Val(ui.opened), accounts)]_vars


\* the allocation rows of the new-goal form and of the edit dialog
FormRows(u) == u.newGoalAllocations

EditRows(u) ==
    IF IsNull(u.editingGoal) \/ IsNull(Val(u.editingGoal).allocations) THEN <<>>
    ELSE Val(Val(u.editingGoal).allocations)

DistinctAndLoadable(rows) ==
    /\ \A j, k \in 1..Len(rows) : j # k => rows[j].account_id # rows[k].account_id
    /\ Len(rows) <= Len(accounts)

\* C29: a step that adds or removes an allocation row, in the new-goal form
\* or in the edit dialog, leaves rows of pairwise distinct accounts, no more
\* of them than accounts are loaded; no row is added when no account is
\* loaded or every loaded account has a row.
C29_AllocationsDistinct ==
    [][/\ (ui.showAddGoal /\ ui'.showAddGoal /\ Len(FormRows(ui')) # Len(FormRows(ui))) =>
             DistinctAndLoadable(FormRows(ui'))
       /\ (~IsNull(ui.editingGoal) /\ ~IsNull(ui'.editingGoal)
             /\ Len(EditRows(ui')) # Len(EditRows(ui))) =>
             DistinctAndLoadable(EditRows(ui'))
       /\ (Len(accounts) = 0
             \/ \A i \in 1..Len(accounts) :
                   \E k \in 1..Len(FormRows(ui)) :
                       FormRows(ui)[k].account_id = accounts[i].account_id) =>
             Len(FormRows(ui')) <= Len(FormRows(ui))]_vars

=============================================================================
